---- MODULE Spec2Model ----
(***************************************************************************)
(* nmlinkd: a NetworkManager-shaped D-Bus service synthesised from the     *)
(* kernel's rtnetlink state.  The model covers process start-up            *)
(* (main.rs), the netlink monitor and its batch application (monitor.rs),  *)
(* the kernel queries that write the store (queries.rs), the state store   *)
(* (state.rs), the pure mappings (mapping.rs) and the object-server        *)
(* registrations (nm/mod.rs).                                              *)
(***************************************************************************)
EXTENDS Integers, Sequences, FiniteSets

(***************************************************************************)
(* Bounds of the model.                                                    *)
(***************************************************************************)
\* multicast messages the monitor receives in one run
MaxMsgs == 2
\* object-server calls (register/unregister) that return an error
MaxFaults == 1
\* address messages of one burst inside a single debounce window
MaxBurst == 10
\* messages the netlink stream holds unread
MaxReady == 2
\* messages of one kernel dump
MaxDump == 2
\* messages the kernel emits in all while the stream is followed one by one
MaxArrived == 4

(***************************************************************************)
(* mapping.rs: enumerations                                                *)
(***************************************************************************)
NM_STATE_UNKNOWN == 0
NM_STATE_DISCONNECTED == 20
NM_STATE_CONNECTED_LOCAL == 50
NM_STATE_CONNECTED_GLOBAL == 70

DEV_UNKNOWN == 0
DEV_UNAVAILABLE == 20
DEV_DISCONNECTED == 30
DEV_IP_CONFIG == 70
DEV_ACTIVATED == 100

CONNECTIVITY_UNKNOWN == 0
CONNECTIVITY_NONE == 1
CONNECTIVITY_FULL == 4

IFF_UP == 1
IFF_RUNNING == 64
IFF_LOWER_UP == 65536
IFF_DORMANT == 131072

\* (flags & bit) != 0 for a single-bit mask
HasFlag(flags, bit) == (flags \div bit) % 2 = 1

(***************************************************************************)
(* Input domains.                                                          *)
(***************************************************************************)
Ifindexes == {3, 7}

\* interface names as character sequences, so that prefixes are computed
Eth0 == <<"e", "t", "h", "0">>
Docker0 == <<"d", "o", "c", "k", "e", "r", "0">>
\* a link message without an IfName attribute
NoName == <<>>
MsgNames == {Eth0, Docker0, NoName}

\* flags of the multicast NewLink messages: down; up without carrier; up,
\* running, lower-up
FlagValues == {0, 1, 65601}
\* flags of the links of the initial dump when the monitor is explored
BootFlags == {1, 65601}
\* flags of the links of the initial dump when start-up alone is explored:
\* FlagValues and up, running, dormant
AllBootFlags == {0, 1, 65601, 131137}

Addr4 == "192.0.2.10/24"
Addr6 == "2001:db8::10/64"
\* replies of an address dump for one ifindex
AddrDumps ==
    { [v4 |-> <<>>, v6 |-> <<>>],
      [v4 |-> <<Addr4>>, v6 |-> <<>>],
      [v4 |-> <<>>, v6 |-> <<Addr6>>] }

None == "None"
Gw4 == "192.0.2.1"
Gw6 == "fe80::1"
Route(fam, len, gw, oif) == [family |-> fam, dst_len |-> len, gateway |-> gw, oif |-> oif]
\* replies of the two route dumps (IPv4 then IPv6), as one sequence
RouteDumps ==
    { <<>>,
      <<Route(4, 0, Gw4, 3)>>,
      <<Route(6, 0, Gw6, 3)>>,
      <<Route(4, 24, Gw4, 3), Route(6, 0, Gw6, 7)>> }

\* how a dump ends: with every message read, or with an error after the
\* messages read so far
AddrOutcomes == { [read |-> d, failed |-> f] : d \in AddrDumps, f \in BOOLEAN }
RouteOutcomes == { [read |-> r, failed |-> f] : r \in RouteDumps, f \in BOOLEAN }

(***************************************************************************)
(* mapping.rs: pure functions                                              *)
(***************************************************************************)
\* a variant of netlink_flags_to_nm_device that does not look at IFF_DORMANT
netlink_flags_to_nm_device_no_dormant(flags, has_ipv4, has_ipv6) ==
    LET is_up == HasFlag(flags, IFF_UP)
        has_carrier == HasFlag(flags, IFF_RUNNING) \/ HasFlag(flags, IFF_LOWER_UP)
        has_ip == has_ipv4 \/ has_ipv6
    IN  IF ~is_up THEN DEV_DISCONNECTED
        ELSE IF ~has_carrier THEN DEV_UNAVAILABLE
        ELSE IF ~has_ip THEN DEV_IP_CONFIG
        ELSE DEV_ACTIVATED

netlink_flags_to_nm_device(flags, has_ipv4, has_ipv6) ==
    LET is_up == HasFlag(flags, IFF_UP)
        is_running == HasFlag(flags, IFF_RUNNING)
        is_lower_up == HasFlag(flags, IFF_LOWER_UP)
        is_dormant == HasFlag(flags, IFF_DORMANT)
        has_carrier == is_running \/ is_lower_up
        has_ip == has_ipv4 \/ has_ipv6
    IN  IF ~is_up THEN DEV_DISCONNECTED
        ELSE IF is_dormant THEN DEV_UNAVAILABLE
        ELSE IF ~has_carrier THEN DEV_UNAVAILABLE
        ELSE IF ~has_ip THEN DEV_IP_CONFIG
        ELSE DEV_ACTIVATED

has_ip_address(dev) == dev.ipv4_addrs # <<>> \/ dev.ipv6_addrs # <<>>

\* DeviceInfo::has_gateway, which Manager.PrimaryConnection calls
has_gateway(dev) == dev.gateway4 # None \/ dev.gateway6 # None

\* a variant of deduce_global_state that takes the gateway of any device
deduce_global_state_any_gateway(devs) ==
    LET has_ip(dev) == dev.ipv4_addrs # <<>> \/ dev.ipv6_addrs # <<>>
    IN  IF /\ \E i \in DOMAIN devs : has_ip(devs[i])
           /\ \E i \in DOMAIN devs : devs[i].gateway4 # None \/ devs[i].gateway6 # None
            THEN NM_STATE_CONNECTED_GLOBAL
        ELSE IF \E i \in DOMAIN devs : has_ip(devs[i])
            THEN NM_STATE_CONNECTED_LOCAL
        ELSE NM_STATE_DISCONNECTED

deduce_global_state(devs) ==
    LET has_ip(dev) == dev.ipv4_addrs # <<>> \/ dev.ipv6_addrs # <<>>
    IN  IF \E i \in DOMAIN devs :
              has_ip(devs[i]) /\ (devs[i].gateway4 # None \/ devs[i].gateway6 # None)
            THEN NM_STATE_CONNECTED_GLOBAL
        ELSE IF \E i \in DOMAIN devs : has_ip(devs[i])
            THEN NM_STATE_CONNECTED_LOCAL
        ELSE NM_STATE_DISCONNECTED

global_state_to_connectivity(g) ==
    IF g >= NM_STATE_CONNECTED_LOCAL /\ g <= NM_STATE_CONNECTED_GLOBAL THEN CONNECTIVITY_FULL
    ELSE IF g = NM_STATE_DISCONNECTED THEN CONNECTIVITY_NONE
    ELSE CONNECTIVITY_UNKNOWN

(***************************************************************************)
(* state.rs: object paths                                                  *)
(***************************************************************************)
nm_path(kind, ifindex) == <<kind, ifindex>>
device_path(ifindex) == nm_path("Devices", ifindex)
active_connection_path(ifindex) == nm_path("ActiveConnection", ifindex)
root_path == <<"/", 0>>

(***************************************************************************)
(* netlink/mod.rs: interface filter and device construction                *)
(***************************************************************************)
IGNORED_PREFIXES ==
    << <<"l", "o">>,
       <<"d", "o", "c", "k", "e", "r">>,
       <<"v", "e", "t", "h">>,
       <<"b", "r", "-">>,
       <<"v", "i", "r", "b", "r">>,
       <<"v", "n", "e", "t">>,
       <<"w", "g">>,
       <<"t", "u", "n">>,
       <<"t", "a", "p">>,
       <<"t", "a", "i", "l", "s", "c", "a", "l", "e">>,
       <<"p", "o", "d", "m", "a", "n">> >>

starts_with(name, prefix) ==
    /\ Len(name) >= Len(prefix)
    /\ \A k \in 1..Len(prefix) : name[k] = prefix[k]

\* a variant of should_ignore_interface that knows the first prefix only
should_ignore_interface_lo_only(name) == starts_with(name, IGNORED_PREFIXES[1])

should_ignore_interface(name) ==
    \E p \in 1..Len(IGNORED_PREFIXES) : starts_with(name, IGNORED_PREFIXES[p])

DeviceInfo_new(ifindex, name) ==
    [ ifindex |-> ifindex, name |-> name, nm_state |-> DEV_UNKNOWN,
      ipv4_addrs |-> <<>>, ipv6_addrs |-> <<>>,
      gateway4 |-> None, gateway6 |-> None ]

\* a link message: its header index and flags and its IfName attribute
LinkMsg(ifindex, name, flags) == [index |-> ifindex, name |-> name, flags |-> flags]

\* a variant of device_from_link_msg that leaves nm_state as DeviceInfo::new
\* sets it
device_from_link_msg_state_unset(msg) ==
    IF msg.name = NoName THEN {}
    ELSE IF should_ignore_interface(msg.name) THEN {}
    ELSE { DeviceInfo_new(msg.index, msg.name) }

\* the device built from a link message; {} when the interface is skipped
device_from_link_msg(msg) ==
    IF msg.name = NoName THEN {}
    ELSE IF should_ignore_interface(msg.name) THEN {}
    ELSE { [ DeviceInfo_new(msg.index, msg.name) EXCEPT
                !.nm_state = netlink_flags_to_nm_device(msg.flags, FALSE, FALSE) ] }

(***************************************************************************)
(* State.                                                                  *)
(***************************************************************************)
VARIABLES
    pc,                 \* position of the process: run() and watch_netlink()
    devices,            \* AppState.devices: ifindex -> DeviceInfo
    global_state,       \* AppState.global_state
    connectivity,       \* AppState.connectivity
    objects,            \* interfaces registered in the object server
    served,             \* the bus name is claimed
    pending,            \* PendingEvents of the current window, not yet applied
    todo,               \* link messages of the current phase not yet handled
    ip_config_notify,   \* process_batch's queue of IP-config notifications
    nmsgs,              \* messages received so far
    nfaults,            \* object-server errors so far
    ops,                \* what the last step did, in order
    lastFlags,          \* history: flags of the last NewLink handled, per device
    lastLink,           \* history: kind of the last link event of the batch, per ifindex
    announced,          \* history: devices announced to clients and not yet withdrawn
    signalled,          \* history: the current batch has emitted a signal
    lost,               \* history: the batches in which an emission failed, by nmsgs
    boot,               \* history: what the kernel returned to the initial load
    downed,             \* history: devices the current batch moved to Disconnected or Unavailable
    naddr,              \* history: address messages of a burst received in the current window
    kernel,             \* the kernel's address list of the ifindex of the burst
    bus_ok,             \* the bus connection still sends messages
    user_disconnect_pending,    \* AppState.user_disconnect_pending
    reply,              \* what the last D-Bus method call returned
    nameservers,        \* AppState.nameservers
    resolv,             \* the two resolv.conf files, in the order they are tried
    sig,                \* the signal delivered to the process and not yet acted on
    loading,            \* the route dump reload_gateways is reading, with the table before it
    observed,           \* what the last D-Bus reader saw under the read lock
    args,               \* the object paths the last D-Bus method call was given
    ready,              \* messages of the kernel waiting in the netlink stream
    expired,            \* the deadline of the debounce window has passed
    input,              \* the arguments a function of mapping.rs is applied to
    output,             \* what the function returned
    task,               \* the lock and kernel steps left of the operation under way, and its write guard
    call,               \* the method call a client has made, and the step its handler is at
    stream              \* history: the messages the kernel has emitted, and the batch each one read was put in

vars == << pc, devices, global_state, connectivity, objects, served, pending, todo,
           ip_config_notify, nmsgs, nfaults, ops, lastFlags, lastLink, announced,
           signalled, lost, boot, downed, naddr, kernel, bus_ok, user_disconnect_pending,
           reply, nameservers, resolv, sig, loading, observed, args, ready, expired,
           input, output,
           task, call, stream >>

\* what the monitor and the start-up leave alone: the burst and the kernel's
\* list, the bus connection, the state of the method calls, the files and the
\* signals, the steps of the gateway reload and the readers
env == << naddr, kernel, bus_ok, user_disconnect_pending, reply, resolv, sig, loading, observed,
         args, ready, expired, input, output,
           task, call, stream >>

\* one entry of ops: kind is "query", "error" (a failed kernel request), "write",
\* "register", "unregister", "signal", "lost" (a signal the bus did not send),
\* "call" (a D-Bus method call) or "kernel" (an accepted link change)
Op(kind, what, ifindex, a, b) == <<kind, what, ifindex, a, b>>

OpsOfKind(s, kind) == { k \in 1..Len(s) : s[k][1] = kind }

\* the elements of a set of ifindexes in ascending order
RECURSIVE SetToSeq(_)
SetToSeq(S) ==
    IF S = {} THEN <<>>
    ELSE LET m == CHOOSE x \in S : \A y \in S : x <= y
         IN  <<m>> \o SetToSeq(S \ {m})

RECURSIVE Flatten(_)
Flatten(ss) == IF ss = <<>> THEN <<>> ELSE Head(ss) \o Flatten(Tail(ss))

MapInsert(m, k, v) == [ j \in DOMAIN m \cup {k} |-> IF j = k THEN v ELSE m[j] ]
MapRemove(m, k) == [ j \in DOMAIN m \ {k} |-> m[j] ]
EmptyMap == [ j \in {} |-> 0 ]

\* no gateway reload is under way; no reader has read
NotLoading == [on |-> FALSE, rest |-> <<>>, dump |-> <<>>, failed |-> FALSE, before |-> EmptyMap]
NotObserved == [during |-> FALSE, devices |-> EmptyMap]

(***************************************************************************)
(* state.rs: AppState and DeviceInfo                                       *)
(***************************************************************************)
\* AppState::recompute_global_state, as the pair (global_state, connectivity)
recompute_global_state(devs) ==
    LET g == deduce_global_state(devs)
    IN  [global_state |-> g, connectivity |-> global_state_to_connectivity(g)]

\* a variant of update_state_on_ip_change without its early return for a
\* device below IpConfig
update_state_on_ip_change_unguarded(dev) ==
    [dev EXCEPT !.nm_state = IF has_ip_address(dev) THEN DEV_ACTIVATED ELSE DEV_IP_CONFIG]

\* DeviceInfo::update_state_on_ip_change: the device afterwards
update_state_on_ip_change(dev) ==
    IF dev.nm_state < DEV_IP_CONFIG THEN dev
    ELSE [dev EXCEPT !.nm_state = IF has_ip_address(dev) THEN DEV_ACTIVATED ELSE DEV_IP_CONFIG]

\* DeviceInfo::update_state_on_link_change: the device afterwards
update_state_on_link_change(dev, flags) ==
    LET new_state == netlink_flags_to_nm_device(flags, dev.ipv4_addrs # <<>>, dev.ipv6_addrs # <<>>)
    IN  IF dev.nm_state = new_state THEN dev
        ELSE IF new_state = DEV_DISCONNECTED \/ new_state = DEV_UNAVAILABLE
            THEN [dev EXCEPT !.nm_state = new_state, !.gateway4 = None, !.gateway6 = None]
        ELSE [dev EXCEPT !.nm_state = new_state]

(***************************************************************************)
(* netlink/queries.rs                                                      *)
(***************************************************************************)
\* reload_addresses_for: replace the address lists of a device that is present
reload_addresses_for_append(devs, ifindex, dump) ==
    IF ifindex \in DOMAIN devs
        THEN [devs EXCEPT ![ifindex].ipv4_addrs = @ \o dump.v4,
                          ![ifindex].ipv6_addrs = @ \o dump.v6]
        ELSE devs

reload_addresses_for(devs, ifindex, dump) ==
    IF ifindex \in DOMAIN devs
        THEN [devs EXCEPT ![ifindex].ipv4_addrs = dump.v4, ![ifindex].ipv6_addrs = dump.v6]
        ELSE devs

\* parse_default_gateway: {} or { <<gateway, oif>> }
parse_default_gateway(msg) ==
    IF msg.dst_len # 0 THEN {}
    ELSE IF msg.gateway = None \/ msg.oif = 0 THEN {}
    ELSE { <<msg.gateway, msg.oif>> }

\* load_default_gateways: bind each default route to its oif device, in dump order
RECURSIVE load_default_gateways(_, _)
load_default_gateways(devs, routes) ==
    IF routes = <<>> THEN devs
    ELSE LET msg == Head(routes)
             gw == parse_default_gateway(msg)
             devs1 == IF gw # {} /\ msg.oif \in DOMAIN devs
                         THEN IF msg.family = 4
                                 THEN [devs EXCEPT ![msg.oif].gateway4 = msg.gateway]
                                 ELSE [devs EXCEPT ![msg.oif].gateway6 = msg.gateway]
                         ELSE devs
         IN  load_default_gateways(devs1, Tail(routes))

\* reload_gateways: zero every gateway, then load the defaults
reload_gateways(devs, routes) ==
    load_default_gateways(
        [ i \in DOMAIN devs |-> [devs[i] EXCEPT !.gateway4 = None, !.gateway6 = None] ],
        routes)

\* a resolv.conf that cannot be read, and one that is read as these lines
Unreadable == [readable |-> FALSE, lines |-> <<>>]
Readable(lines) == [readable |-> TRUE, lines |-> lines]

\* the words of resolv.conf, as character sequences so that prefixes are computed
Keyword == <<"n", "a", "m", "e", "s", "e", "r", "v", "e", "r">>
Search == <<"s", "e", "a", "r", "c", "h">>
Ns1 == <<"1">>
Ns2 == <<"2">>

\* the contents of a readable resolv.conf: its lines, each split at whitespace
ResolvContents ==
    { << <<Search, Ns1>>, <<Keyword>>, <<>> >>,
      << <<Keyword, Ns1>> >>,
      << <<Search, Ns2>>, <<Keyword, Ns2, Ns1>>, <<Keyword \o <<"s">>, Ns1>> >> }

ResolvFiles == { Readable(c) : c \in ResolvContents } \cup {Unreadable}


\* the closure of reload_nameservers over one line: the second word of a line
\* that starts with "nameserver"
nameserver_of(line) ==
    IF Len(line) > 0 /\ starts_with(line[1], Keyword)
        THEN IF Len(line) >= 2 THEN << line[2] >> ELSE <<>>
        ELSE <<>>

\* the servers of a file that was read
RECURSIVE servers_of(_)
servers_of(contents) ==
    IF contents = <<>> THEN <<>>
    ELSE nameserver_of(Head(contents)) \o servers_of(Tail(contents))

\* whether read_to_string succeeds and the file holds a server
has_servers(file) == file.readable /\ servers_of(file.lines) # <<>>

\* reload_nameservers: AppState.nameservers afterwards, old being the list
\* before and files the two resolv.conf in the order of resolv_paths
RECURSIVE reload_nameservers(_, _)
reload_nameservers(old, files) ==
    IF files = <<>> THEN old
    ELSE IF has_servers(Head(files))
        THEN servers_of(Head(files).lines)
    ELSE reload_nameservers(old, Tail(files))

\* what a step records of reload_nameservers: the files read, and the write
\* when one of them held a server
nameserver_ops(files) ==
    << Op("read", "resolv.conf", 0, 0, 0) >>
    \o (IF \E k \in 1..Len(files) : has_servers(files[k])
            THEN << Op("write", "nameservers", 0, 0, 0) >>
            ELSE <<>>)

\* what a step records of an address dump for one ifindex: the query with the
\* number of addresses read per family, the error if it failed, the write
address_query_ops(ifindex, out) ==
    << Op("query", "addresses", ifindex, Len(out.read.v4), Len(out.read.v6)) >>
    \o (IF out.failed THEN << Op("error", "addresses", ifindex, 0, 0) >> ELSE <<>>)
    \o << Op("write", "addresses", ifindex, 0, 0) >>

\* what a step records of reload_gateways: the gateways zeroed, the route
\* dumps with the number of routes read, the error if one failed, the write
gateway_query_ops(out) ==
    << Op("write", "gateways", 0, 0, 0),
       Op("query", "routes", 0, Len(out.read), 0) >>
    \o (IF out.failed THEN << Op("error", "routes", 0, 0, 0) >> ELSE <<>>)
    \o << Op("write", "gateways", 0, 0, 0) >>

\* 1 for a call that failed, 0 for one that did not
Fault(failed) == IF failed THEN 1 ELSE 0

(***************************************************************************)
(* nm/mod.rs: object-server registrations                                  *)
(***************************************************************************)
DeviceKinds == << "Device", "Wired", "IP4Config", "IP6Config", "ActiveConnection",
                  "SettingsConnection" >>

ObjectsOf(ifindex) == { <<DeviceKinds[k], ifindex>> : k \in 1..Len(DeviceKinds) }

\* how many calls of a register or unregister succeed: every one of them, or
\* the call returns the error of its first or of its fourth object-server call
RegisterOutcomes == {0, 3, Len(DeviceKinds)}

\* register_device when its first n calls of obj.at succeed
register_device(objs, ifindex, n) ==
    objs \cup { <<DeviceKinds[k], ifindex>> : k \in 1..n }

\* unregister_device when its first n calls of obj.remove succeed
unregister_device(objs, ifindex, n) ==
    objs \ { <<DeviceKinds[k], ifindex>> : k \in 1..n }

(***************************************************************************)
(* nm/signals.rs: what each notification emits                             *)
(***************************************************************************)
ac_state_of(nm_state) == IF nm_state >= DEV_ACTIVATED THEN 2 ELSE 4

\* one emission: conn.send or the signal emitter of an interface; a send
\* error is logged and the message is lost
emit(what, ifindex, a, b) == Op(IF bus_ok THEN "signal" ELSE "lost", what, ifindex, a, b)

\* object_server().interface(path) finds the interface
has_interface(kind, ifindex) == <<kind, ifindex>> \in objects

notify_global_state_changed(new_global_state, conn) ==
    << emit("Manager.PropertiesChanged", 0, new_global_state, conn) >>
    \o (IF has_interface("Manager", 0)
            THEN << emit("Manager.StateChanged", 0, new_global_state, 0) >>
            ELSE <<>>)

\* a variant of notify_device_state_changed that announces the state read
\* after the emission of the property change as the old one
notify_device_state_changed_old_is_new(ifindex, new_state, old_state) ==
    << emit("Device.PropertiesChanged", ifindex, new_state, 0) >>
    \o (IF has_interface("Device", ifindex)
            THEN << emit("Device.StateChanged", ifindex, new_state, new_state) >>
            ELSE <<>>)
    \o << emit("ActiveConnection.PropertiesChanged", ifindex, ac_state_of(new_state), 0) >>

\* notify_device_state_changed: the property changes are sent as messages,
\* the StateChanged signals through the objects the object server finds
notify_device_state_changed(ifindex, new_state, old_state) ==
    << emit("Device.PropertiesChanged", ifindex, new_state, 0) >>
    \o (IF has_interface("Device", ifindex)
            THEN << emit("Device.StateChanged", ifindex, new_state, old_state) >>
            ELSE <<>>)
    \o << emit("ActiveConnection.PropertiesChanged", ifindex, ac_state_of(new_state), 0) >>
    \o (IF ac_state_of(new_state) # ac_state_of(old_state)
            /\ has_interface("ActiveConnection", ifindex)
            THEN << emit("ActiveConnection.StateChanged", ifindex, ac_state_of(new_state), 0) >>
            ELSE <<>>)

notify_device_ip_config_changed(ifindex) ==
    << emit("IP4Config.PropertiesChanged", ifindex, 0, 0),
       emit("IP6Config.PropertiesChanged", ifindex, 0, 0) >>

notify_device_added(ifindex) ==
    IF has_interface("Manager", 0) THEN << emit("DeviceAdded", ifindex, 0, 0) >> ELSE <<>>

notify_device_removed(ifindex) ==
    IF has_interface("Manager", 0) THEN << emit("DeviceRemoved", ifindex, 0, 0) >> ELSE <<>>

(***************************************************************************)
(* nm/manager.rs: properties of the Manager object                         *)
(***************************************************************************)
\* Manager.Devices
device_paths(devs) == { device_path(i) : i \in DOMAIN devs }

\* Manager.ActiveConnections: active_connection_paths
active_connection_paths(devs) ==
    { active_connection_path(i) : i \in { j \in DOMAIN devs : devs[j].nm_state >= DEV_ACTIVATED } }

\* Connection.Active.State of the object of an ifindex; 0 (Unknown) when the
\* device is not in the table
active_connection_state(devs, ifindex) ==
    IF ifindex \in DOMAIN devs THEN ac_state_of(devs[ifindex].nm_state) ELSE 0

\* a variant of Device.ActiveConnection that counts IpConfig as activated
device_active_connection_from_ip_config(devs, ifindex) ==
    IF ifindex \in DOMAIN devs /\ devs[ifindex].nm_state >= DEV_IP_CONFIG
        THEN active_connection_path(ifindex)
        ELSE root_path

\* Device.ActiveConnection of the object of an ifindex
device_active_connection(devs, ifindex) ==
    IF ifindex \in DOMAIN devs /\ devs[ifindex].nm_state >= DEV_ACTIVATED
        THEN active_connection_path(ifindex)
        ELSE root_path

\* Manager.PrimaryConnection: the values a read may return (the first match
\* in the iteration order of the device table, or "/" when there is none)
primary_connection(devs) ==
    LET matches == { i \in DOMAIN devs : devs[i].nm_state >= DEV_ACTIVATED /\ has_gateway(devs[i]) }
    IN  IF matches = {} THEN {root_path}
        ELSE { active_connection_path(i) : i \in matches }

(***************************************************************************)
(* Start-up: main.rs run(), netlink/mod.rs load_initial_state,             *)
(* nm/mod.rs serve                                                         *)
(***************************************************************************)
\* PendingEvents::default()
EmptyPending ==
    [ address_changed |-> {}, routes_changed |-> FALSE, new_links |-> EmptyMap, del_links |-> {} ]

\* PendingEvents::is_empty
is_empty(p) ==
    /\ p.address_changed = {}
    /\ ~p.routes_changed
    /\ DOMAIN p.new_links = {}
    /\ p.del_links = {}

\* nothing is remembered of the initial load
NoBoot == [ links |-> EmptyMap, addrs |-> EmptyMap, routes |-> <<>> ]

\* no method call has returned
NoReply == << "none", 0 >>

\* one step of an operation on the lock or on the kernel
Ins(op, what) == [op |-> op, what |-> what]

\* no operation is under way and no write guard is held
NoTask == [prog |-> <<>>, guard |-> FALSE, last |-> Ins("none", "none")]

\* the kernel has emitted nothing
NoStream == [arrived |-> 0, taken |-> <<>>]

\* no handler of a method call is running
NoCall == [method |-> "none", ifindex |-> 0, at |-> "none"]

\* no function of mapping.rs is being applied on its own
NoInput ==
    [fn |-> "none", flags |-> 0, has_ipv4 |-> FALSE, has_ipv6 |-> FALSE,
     devices |-> EmptyMap, global_state |-> 0]
NoOutput == [fn |-> "none", value |-> 0]

\* an object path a client passes: what precedes the last "/" and the
\* characters after it
ObjectPath(parent, last) == [parent |-> parent, last |-> last]
Root == ObjectPath("", <<>>)

\* no method call has been made
NoArgs == [connection |-> Root, device |-> Root]

Constructed ==
    /\ pc = "start"
    /\ devices = EmptyMap
    /\ global_state = 0
    /\ connectivity = 0
    /\ objects = {}
    /\ served = FALSE
    /\ pending = EmptyPending
    /\ todo = {}
    /\ ip_config_notify = {}
    /\ nmsgs = 0
    /\ nfaults = 0
    /\ ops = <<>>
    /\ lastFlags = EmptyMap
    /\ lastLink = [ i \in Ifindexes |-> "none" ]
    /\ announced = {}
    /\ signalled = FALSE
    /\ lost = {}
    /\ boot = NoBoot
    /\ downed = {}
    /\ naddr = 0
    /\ kernel = [v4 |-> <<>>, v6 |-> <<>>]
    /\ bus_ok = TRUE
    /\ user_disconnect_pending = {}
    /\ reply = NoReply
    /\ nameservers = <<>>
    /\ resolv = << Unreadable, Unreadable >>
    /\ sig = "none"
    /\ loading = NotLoading
    /\ observed = NotObserved
    /\ args = NoArgs
    /\ ready = 0
    /\ expired = FALSE
    /\ task = NoTask
    /\ call = NoCall
    /\ stream = NoStream
    /\ output = NoOutput

Init ==
    /\ Constructed
    /\ input = NoInput

\* the devices discovered by the link dump: one per link that is not skipped
discovered_devices(links) ==
    [ i \in { j \in DOMAIN links : device_from_link_msg(links[j]) # {} } |->
        CHOOSE d \in device_from_link_msg(links[i]) : TRUE ]

\* a variant of load_initial_addresses that leaves the default gateways out
load_initial_addresses_no_gateways(devs, addrs, routes) ==
    [ i \in DOMAIN devs |->
        [devs[i] EXCEPT !.ipv4_addrs = addrs[i].v4, !.ipv6_addrs = addrs[i].v6] ]

\* load_initial_addresses: every device's address lists, then the default gateways
load_initial_addresses(devs, addrs, routes) ==
    load_default_gateways(
        [ i \in DOMAIN devs |->
            [devs[i] EXCEPT !.ipv4_addrs = addrs[i].v4, !.ipv6_addrs = addrs[i].v6] ],
        routes)

\* a variant of promote_initial that keeps the states derived from the flags alone
promote_initial_skipped(devs) == devs

\* a variant of promote_initial that activates every device with an address
promote_initial_any_state(devs) ==
    [ i \in DOMAIN devs |->
        IF has_ip_address(devs[i])
            THEN [devs[i] EXCEPT !.nm_state = DEV_ACTIVATED]
            ELSE devs[i] ]

\* load_initial_state's re-evaluation of the device states once the addresses are known
promote_initial(devs) ==
    [ i \in DOMAIN devs |->
        IF has_ip_address(devs[i]) /\ devs[i].nm_state = DEV_IP_CONFIG
            THEN [devs[i] EXCEPT !.nm_state = DEV_ACTIVATED]
            ELSE devs[i] ]

\* load_initial_state returns Ok: links is the kernel's link dump, addrs the
\* address dump of each discovered device, routes the default-route dumps
LoadInitialStateFrom(nameSet, flagSet) ==
    /\ pc = "start"
    /\ \E S \in SUBSET Ifindexes :
       \E names \in [S -> nameSet] :
       \E flags \in [S -> flagSet] :
       \E routes \in RouteDumps :
          LET links == [ i \in S |-> LinkMsg(i, names[i], flags[i]) ]
              devs0 == discovered_devices(links)
          IN  \E addrs \in [DOMAIN devs0 -> AddrDumps] :
                 LET devs1 == promote_initial(load_initial_addresses(devs0, addrs, routes))
                     g == recompute_global_state(devs1)
                 IN  /\ devices' = devs1
                     /\ global_state' = g.global_state
                     /\ connectivity' = g.connectivity
                     /\ lastFlags' = [ i \in DOMAIN devs1 |-> flags[i] ]
                     /\ boot' = [ links |-> links, addrs |-> addrs, routes |-> routes ]
                     /\ ops' = << Op("query", "links", 0, 0, 0), Op("write", "devices", 0, 0, 0) >>
                               \o Flatten([ k \in 1..Len(SetToSeq(DOMAIN devs0)) |->
                                    << Op("query", "addresses", SetToSeq(DOMAIN devs0)[k], 0, 0),
                                       Op("write", "addresses", SetToSeq(DOMAIN devs0)[k], 0, 0) >> ])
                               \o << Op("query", "routes", 0, 0, 0), Op("write", "gateways", 0, 0, 0) >>
                               \o nameserver_ops(resolv)
                               \o << Op("write", "nm_state", 0, 0, 0),
                                     Op("write", "global_state", 0, 0, 0) >>
    /\ nameservers' = reload_nameservers(nameservers, resolv)
    /\ pc' = "loaded"
    /\ UNCHANGED << objects, served, pending, todo, ip_config_notify, nmsgs, nfaults,
                    lastLink, announced, signalled, lost, downed, env >>

\* load_initial_state returns Err (the netlink socket or the link dump fails):
\* run() propagates it and main exits with code 1
LoadInitialStateFails ==
    /\ pc = "start"
    /\ pc' = "exit1"
    /\ ops' = << Op("query", "links", 0, 0, 0), Op("error", "load_initial_state", 0, 0, 0) >>
    /\ UNCHANGED << devices, global_state, connectivity, objects, served, pending, todo,
                    ip_config_notify, nmsgs, nfaults, lastFlags, lastLink, announced,
                    signalled, lost, boot, downed, nameservers, env >>

\* the objects serve() builds before it claims the name
ServedTree(devs) ==
    { <<"ObjectManager", 0>>, <<"Manager", 0>>, <<"Settings", 0>> }
    \cup UNION { ObjectsOf(i) : i \in DOMAIN devs }

\* start-up as explored together with the monitor
LoadInitialState == LoadInitialStateFrom({Eth0}, BootFlags)

\* start-up over every kind of link the dump may return
LoadInitialStateAny == LoadInitialStateFrom(MsgNames, AllBootFlags)

\* serve returns Ok: the tree is built and the bus name claimed; run() calls monitor::run
Serve ==
    /\ pc = "loaded"
    /\ objects' = ServedTree(devices)
    /\ served' = TRUE
    /\ announced' = DOMAIN devices
    /\ pc' = "monitor"
    /\ ops' = << Op("register", "tree", 0, 0, 0), Op("register", "name", 0, 0, 0) >>
    /\ UNCHANGED << devices, global_state, connectivity, pending, todo, ip_config_notify,
                    nmsgs, nfaults, lastFlags, lastLink, signalled, lost, boot, downed, nameservers, env >>

\* serve returns Err (the bus name cannot be claimed): main exits with code 1
ServeFails ==
    /\ pc = "loaded"
    /\ pc' = "exit1"
    /\ ops' = << Op("error", "serve", 0, 0, 0) >>
    /\ UNCHANGED << devices, global_state, connectivity, objects, served, pending, todo,
                    ip_config_notify, nmsgs, nfaults, lastFlags, lastLink, announced,
                    signalled, lost, boot, downed, nameservers, env >>

(***************************************************************************)
(* main.rs, netlink/monitor.rs: how the monitor starts and how the process *)
(* ends.                                                                   *)
(***************************************************************************)
\* what ends monitor::run is named by a string: "signal handler" (the SIGTERM
\* handler cannot be installed), "multicast socket" and "bind" (the watcher's
\* socket cannot be opened or bound), "SIGINT", "SIGTERM"
\* a variant of monitor::run that reports a signal as an error
monitor_run_signal_is_error(outcome) ==
    IF outcome \in {"signal handler", "SIGINT", "SIGTERM"} THEN "Err" ELSE "Ok"

\* monitor::run: only the `?` on the SIGTERM handler returns Err; the result of
\* watch_netlink is logged and dropped, and every branch of the select ends in Ok
monitor_run(outcome) ==
    IF outcome = "signal handler" THEN "Err" ELSE "Ok"

\* main: exit(1) when run() returns Err, the normal return otherwise
main_exit(result) == IF result = "Err" THEN "exit1" ELSE "exit0"

\* monitor::run installs the SIGTERM handler and watch_netlink opens and binds
\* its multicast socket: the monitor waits for the first message
MonitorStart ==
    /\ pc = "monitor"
    /\ pc' = "idle"
    /\ ops' = << Op("open", "signal handler", 0, 0, 0), Op("open", "multicast socket", 0, 0, 0),
                 Op("open", "bind", 0, 0, 0) >>
    /\ UNCHANGED << devices, global_state, connectivity, objects, served, pending, todo,
                    ip_config_notify, nmsgs, nfaults, lastFlags, lastLink, announced,
                    signalled, lost, boot, downed, nameservers, env >>

\* one of the three cannot be done
MonitorFails ==
    /\ pc = "monitor"
    /\ \E what \in {"signal handler", "multicast socket", "bind"} :
          /\ pc' = main_exit(monitor_run(what))
          /\ ops' = << Op("error", what, 0, 0, 0) >>
    /\ UNCHANGED << devices, global_state, connectivity, objects, served, pending, todo,
                    ip_config_notify, nmsgs, nfaults, lastFlags, lastLink, announced,
                    signalled, lost, boot, downed, nameservers, env >>

(***************************************************************************)
(* netlink/monitor.rs: the debounce window                                 *)
(***************************************************************************)
\* the name and flags of the multicast NewLink messages: every flag value
\* under a name that is kept, and one message each for the skipped names
NewLinkInputs ==
    { <<Eth0, f>> : f \in FlagValues } \cup { <<Docker0, 65601>>, <<NoName, 1>> }

\* the multicast messages the kernel may send
Messages ==
    { [kind |-> "NewLink", index |-> i, name |-> nf[1], flags |-> nf[2]] :
        i \in Ifindexes, nf \in NewLinkInputs }
    \cup { [kind |-> k, index |-> i] :
        k \in {"DelLink", "NewAddress", "DelAddress"}, i \in Ifindexes }
    \cup { [kind |-> k] : k \in {"NewRoute", "DelRoute", "Other"} }

\* accumulate: dispatch one message into the pending events
accumulate(msg, p) ==
    IF msg.kind \in {"NewAddress", "DelAddress"}
        THEN [p EXCEPT !.address_changed = @ \cup {msg.index}]
    ELSE IF msg.kind \in {"NewRoute", "DelRoute"}
        THEN [p EXCEPT !.routes_changed = TRUE]
    ELSE IF msg.kind = "NewLink"
        THEN [p EXCEPT !.new_links =
                MapInsert(@, msg.index, LinkMsg(msg.index, msg.name, msg.flags))]
    ELSE IF msg.kind = "DelLink"
        THEN [p EXCEPT !.del_links = @ \cup {msg.index}]
    ELSE p

\* a variant of the phase order with the two link loops exchanged
PhaseOrder_new_first == << "new", "del", "addr", "route", "notify" >>

\* the order in which process_batch applies the phases of a batch
PhaseOrder == << "del", "new", "addr", "route", "notify" >>

\* the phase process_batch enters after phase p; "idle" after the last one
NextPhase(p) ==
    LET k == CHOOSE j \in 1..Len(PhaseOrder) : PhaseOrder[j] = p
    IN  IF k = Len(PhaseOrder) THEN "idle" ELSE PhaseOrder[k + 1]

\* the pending events once a phase is over: what the phase iterated over is
\* not read again
Consumed(phase, p) ==
    IF phase = "del" THEN [p EXCEPT !.del_links = {}]
    ELSE IF phase = "new" THEN [p EXCEPT !.new_links = EmptyMap]
    ELSE IF phase = "addr" THEN [p EXCEPT !.address_changed = {}]
    ELSE IF phase = "route" THEN [p EXCEPT !.routes_changed = FALSE]
    ELSE p

\* whether a phase has anything to do: an empty loop or a false condition of
\* process_batch takes no step; the closing notification loop ends the batch
HasWork(phase, p) ==
    IF phase = "del" THEN p.del_links # {}
    ELSE IF phase = "new" THEN DOMAIN p.new_links # {}
    ELSE IF phase = "addr" THEN p.address_changed # {}
    ELSE IF phase = "route" THEN p.routes_changed
    ELSE TRUE

\* the first phase from phase on, in the order of process_batch, that has work
RECURSIVE SkipEmpty(_, _)
SkipEmpty(phase, p) ==
    IF phase = "idle" \/ HasWork(phase, p) THEN phase ELSE SkipEmpty(NextPhase(phase), p)

\* a variant in which process_batch returns as soon as the bus connection
\* has failed
AfterPhase_until_bus_fails(phase, p) ==
    IF bus_ok THEN SkipEmpty(NextPhase(phase), p) ELSE "idle"

\* the phase process_batch is in once phase is over
AfterPhase(phase, p) == SkipEmpty(NextPhase(phase), p)

\* the link messages a phase iterates over
TodoOf(phase, p) ==
    IF phase = "del" THEN p.del_links
    ELSE IF phase = "new" THEN DOMAIN p.new_links
    ELSE {}

\* watch_netlink receives a message: the first one opens the window, the
\* later ones are drained into the same PendingEvents
Recv ==
    /\ pc \in {"idle", "window"}
    /\ nmsgs < MaxMsgs
    /\ \E msg \in Messages :
          /\ pending' = accumulate(msg, pending)
          /\ LET seen == IF pc = "idle" THEN [ i \in Ifindexes |-> "none" ] ELSE lastLink
             IN  lastLink' = IF msg.kind = "NewLink" THEN [seen EXCEPT ![msg.index] = "new"]
                             ELSE IF msg.kind = "DelLink" THEN [seen EXCEPT ![msg.index] = "del"]
                             ELSE seen
    /\ pc' = "window"
    /\ nmsgs' = nmsgs + 1
    /\ boot' = NoBoot
    /\ ops' = <<>>
    /\ UNCHANGED << devices, global_state, connectivity, objects, served, todo,
                    ip_config_notify, nfaults, lastFlags, announced, signalled, lost,
                    downed, nameservers, env >>

\* the deadline of the window passes: process_batch starts unless nothing is pending
WindowClose ==
    /\ pc = "window"
    /\ IF is_empty(pending)
          THEN /\ pc' = "idle"
               /\ todo' = {}
          ELSE /\ pc' = SkipEmpty(PhaseOrder[1], pending)
               /\ todo' = TodoOf(SkipEmpty(PhaseOrder[1], pending), pending)
    /\ signalled' = FALSE
    /\ lost' = lost
    /\ ip_config_notify' = {}
    /\ ops' = <<>>
    /\ UNCHANGED << devices, global_state, connectivity, objects, served, pending,
                    nmsgs, nfaults, lastFlags, lastLink, announced, boot, downed, nameservers, env >>

\* one iteration of the loop over del_links or new_links handles message i:
\* the loop goes on, or it is over and process_batch moves on
LinkLoopStep(i) ==
    IF todo \ {i} = {}
        THEN /\ pc' = AfterPhase(pc, pending)
             /\ todo' = TodoOf(AfterPhase(pc, pending), pending)
             /\ pending' = Consumed(pc, pending)
        ELSE /\ todo' = todo \ {i}
             /\ UNCHANGED << pc, pending >>

HasSignal(s) == OpsOfKind(s, "signal") # {}

\* the batches that have lost an emission, once a step has done s
LostAfter(s) == IF OpsOfKind(s, "lost") # {} THEN lost \cup {nmsgs} ELSE lost

(***************************************************************************)
(* netlink/monitor.rs: handle_del_link                                     *)
(***************************************************************************)
\* handle_del_link for a device that is present; n calls of obj.remove succeed
DelLinkPresent(i, n) ==
    LET devs1 == MapRemove(devices, i)
        g == recompute_global_state(devs1)
    IN  /\ objects' = unregister_device(objects, i, n)
        /\ nfaults' = IF n < Len(DeviceKinds) THEN nfaults + 1 ELSE nfaults
        /\ devices' = devs1
        /\ global_state' = g.global_state
        /\ connectivity' = g.connectivity
        /\ lastFlags' = MapRemove(lastFlags, i)
        /\ announced' = announced \ {i}
        /\ ops' = << Op("unregister", "device", i, n, 0),
                     Op("write", "devices", i, 0, 0) >>
                  \o notify_device_removed(i)
                  \o (IF global_state # g.global_state
                         THEN notify_global_state_changed(g.global_state, g.connectivity)
                         ELSE <<>>)

HandleDelLink ==
    /\ pc = "del"
    /\ \E i \in todo :
          /\ LinkLoopStep(i)
          /\ IF i \in DOMAIN devices
                THEN \E n \in RegisterOutcomes :
                        /\ n < Len(DeviceKinds) => nfaults < MaxFaults
                        /\ DelLinkPresent(i, n)
                ELSE /\ ops' = <<>>
                     /\ UNCHANGED << devices, global_state, connectivity, objects, nfaults,
                                     lastFlags, announced >>
    /\ signalled' = (signalled \/ HasSignal(ops'))
    /\ lost' = LostAfter(ops')
    /\ UNCHANGED << served, ip_config_notify, nmsgs, lastLink, boot, downed, nameservers, env >>

(***************************************************************************)
(* netlink/monitor.rs: handle_new_link                                     *)
(***************************************************************************)
\* the hotplug branch: the device table once the addresses and gateways of
\* the new device are pulled and its state is derived from them
new_device_loaded(devs, dev, flags, addrs, routes) ==
    LET i == dev.ifindex
        devs1 == MapInsert(devs, i, dev)
        devs2 == reload_addresses_for(devs1, i, addrs)
        devs3 == reload_gateways(devs2, routes)
    IN  [devs3 EXCEPT ![i].nm_state =
            netlink_flags_to_nm_device(flags, devs3[i].ipv4_addrs # <<>>,
                                       devs3[i].ipv6_addrs # <<>>)]

\* handle_new_link for an ifindex that is not in the table; n calls of obj.at succeed
NewLinkHotplug(msg, dev, n) ==
    LET i == msg.index
    IN  /\ \E addrs \in AddrOutcomes, routes \in RouteOutcomes :
              /\ devices' = new_device_loaded(devices, dev, msg.flags, addrs.read, routes.read)
              /\ nfaults' = nfaults + Fault(addrs.failed) + Fault(routes.failed)
                                    + Fault(n < Len(DeviceKinds))
              /\ nfaults' <= MaxFaults
              /\ ops' = << Op("write", "devices", i, 0, 0) >>
                        \o address_query_ops(i, addrs)
                        \o gateway_query_ops(routes)
                        \o nameserver_ops(resolv)
                        \o << Op("write", "nm_state", i, 0, 0),
                              Op("register", "device", i, n, 0) >>
                        \o (IF n = Len(DeviceKinds) THEN notify_device_added(i) ELSE <<>>)
        /\ objects' = register_device(objects, i, n)
        /\ lastFlags' = MapInsert(lastFlags, i, msg.flags)
        /\ announced' = IF n = Len(DeviceKinds) THEN announced \cup {i} ELSE announced
        /\ nameservers' = reload_nameservers(nameservers, resolv)
        /\ UNCHANGED << global_state, connectivity >>

\* handle_new_link for a device that is present: a flag update
NewLinkUpdate(msg) ==
    LET i == msg.index
        old == devices[i]
        new == update_state_on_link_change(old, msg.flags)
        devs1 == [devices EXCEPT ![i] = new]
        g == recompute_global_state(devs1)
    IN  /\ devices' = devs1
        /\ lastFlags' = [lastFlags EXCEPT ![i] = msg.flags]
        /\ IF new.nm_state # old.nm_state
              THEN /\ global_state' = g.global_state
                   /\ connectivity' = g.connectivity
                   /\ ops' = << Op("write", "devices", i, 0, 0) >>
                             \o notify_device_state_changed(i, new.nm_state, old.nm_state)
                             \o notify_global_state_changed(g.global_state, g.connectivity)
              ELSE /\ ops' = << Op("write", "devices", i, 0, 0) >>
                   /\ UNCHANGED << global_state, connectivity >>
        /\ UNCHANGED << objects, nfaults, announced, nameservers >>

HandleNewLink ==
    /\ pc = "new"
    /\ \E i \in todo :
          LET msg == pending.new_links[i]
              dev == device_from_link_msg(msg)
          IN  /\ LinkLoopStep(i)
              /\ IF i \notin DOMAIN devices
                    THEN IF dev = {}
                            THEN /\ ops' = <<>>
                                 /\ UNCHANGED << devices, global_state, connectivity, objects,
                                                 nfaults, lastFlags, announced, nameservers >>
                            ELSE \E n \in RegisterOutcomes :
                                    NewLinkHotplug(msg, CHOOSE d \in dev : TRUE, n)
                    ELSE NewLinkUpdate(msg)
              /\ downed' = IF /\ i \in DOMAIN devices
                              /\ devices'[i].nm_state # devices[i].nm_state
                              /\ devices'[i].nm_state \in {DEV_DISCONNECTED, DEV_UNAVAILABLE}
                              THEN downed \cup {i}
                              ELSE downed
    /\ signalled' = (signalled \/ HasSignal(ops'))
    /\ lost' = LostAfter(ops')
    /\ UNCHANGED << served, ip_config_notify, nmsgs, lastLink, boot, env >>

(***************************************************************************)
(* netlink/monitor.rs: process_batch, address and route phases             *)
(***************************************************************************)
\* the address phase of process_batch (address_changed is not empty), with
\* the outcome of the address dump of every ifindex of address_changed
address_phase(addrs) ==
    /\ pc = "addr"
    /\ pc' = AfterPhase(pc, pending)
    /\            LET order == SetToSeq(pending.address_changed)
                      devs1 == [ i \in DOMAIN devices |->
                                   IF i \in pending.address_changed
                                      THEN reload_addresses_for(devices, i, addrs[i].read)[i]
                                      ELSE devices[i] ]
                      devs2 == [ i \in DOMAIN devs1 |->
                                   IF i \in pending.address_changed
                                      THEN update_state_on_ip_change(devs1[i])
                                      ELSE devs1[i] ]
                      changed == { i \in DOMAIN devs1 : devs2[i].nm_state # devs1[i].nm_state }
                      g == recompute_global_state(devs2)
                  IN  /\ devices' = devs2
                      /\ global_state' = g.global_state
                      /\ connectivity' = g.connectivity
                      /\ ip_config_notify' = ip_config_notify \cup pending.address_changed
                      /\ nfaults' = nfaults + Cardinality({ i \in pending.address_changed :
                                                                addrs[i].failed })
                      /\ nfaults' <= MaxFaults
                      /\ ops' = Flatten([ k \in 1..Len(order) |->
                                    address_query_ops(order[k], addrs[order[k]]) ])
                                \o nameserver_ops(resolv)
                                \o << Op("write", "nm_state", 0, 0, 0) >>
                                \o Flatten([ k \in 1..Len(SetToSeq(changed)) |->
                                    notify_device_state_changed(SetToSeq(changed)[k],
                                        devs2[SetToSeq(changed)[k]].nm_state,
                                        devs1[SetToSeq(changed)[k]].nm_state) ])
                                \o (IF global_state # g.global_state
                                       THEN notify_global_state_changed(g.global_state, g.connectivity)
                                       ELSE <<>>)
    /\ nameservers' = reload_nameservers(nameservers, resolv)
    /\ pending' = Consumed(pc, pending)
    /\ signalled' = (signalled \/ HasSignal(ops'))
    /\ lost' = LostAfter(ops')
    /\ UNCHANGED << objects, served, todo, nmsgs, lastFlags,
                    lastLink, announced, boot, downed, env >>

\* the address phase when each dump returns any list and may fail
AddressPhase ==
    \E addrs \in [pending.address_changed -> AddrOutcomes] : address_phase(addrs)

\* a variant of the route phase's notification that is skipped when
\* global_state is what it was
route_phase_signals_on_change(old_global, g) ==
    IF old_global # g.global_state
        THEN notify_global_state_changed(g.global_state, g.connectivity)
        ELSE <<>>

\* the notification of the route phase, whatever global_state was before
route_phase_signals(old_global, g) ==
    notify_global_state_changed(g.global_state, g.connectivity)

\* the route phase of process_batch (routes_changed is set)
RoutePhase ==
    /\ pc = "route"
    /\ pc' = AfterPhase(pc, pending)
    /\ \E routes \in RouteOutcomes :
                  LET devs1 == reload_gateways(devices, routes.read)
                      g == recompute_global_state(devs1)
                  IN  /\ devices' = devs1
                      /\ global_state' = g.global_state
                      /\ connectivity' = g.connectivity
                      /\ ip_config_notify' = ip_config_notify \cup DOMAIN devs1
                      /\ nfaults' = nfaults + Fault(routes.failed)
                      /\ nfaults' <= MaxFaults
                      /\ ops' = gateway_query_ops(routes)
                                \o << Op("write", "global_state", 0, 0, 0) >>
                                \o route_phase_signals(global_state, g)
    /\ pending' = Consumed(pc, pending)
    /\ signalled' = (signalled \/ HasSignal(ops'))
    /\ lost' = LostAfter(ops')
    /\ UNCHANGED << objects, served, todo, nmsgs, lastFlags,
                    lastLink, announced, boot, downed, nameservers, env >>

\* a variant of the closing loop that skips the ifindexes without a
\* registered IP4Config object
notify_ip_config_registered(queue) ==
    Flatten([ k \in 1..Len(SetToSeq(queue)) |->
        IF has_interface("IP4Config", SetToSeq(queue)[k])
            THEN notify_device_ip_config_changed(SetToSeq(queue)[k])
            ELSE <<>> ])

\* the closing loop of process_batch over the queued ifindexes
notify_ip_config(queue) ==
    Flatten([ k \in 1..Len(SetToSeq(queue)) |->
        notify_device_ip_config_changed(SetToSeq(queue)[k]) ])

\* the closing loop of process_batch: one IP-config notification per queued
\* ifindex; process_batch returns and watch_netlink waits for the next message
NotifyIpConfig ==
    /\ pc = "notify"
    /\ pc' = NextPhase(pc)
    /\ ops' = notify_ip_config(ip_config_notify)
    /\ ip_config_notify' = {}
    /\ pending' = EmptyPending
    /\ downed' = {}
    /\ signalled' = (signalled \/ HasSignal(ops'))
    /\ lost' = LostAfter(ops')
    /\ UNCHANGED << devices, global_state, connectivity, objects, served, todo, nmsgs,
                    nfaults, lastFlags, lastLink, announced, boot, nameservers, env >>

Next ==
    \/ LoadInitialState
    \/ LoadInitialStateFails
    \/ Serve
    \/ ServeFails
    \/ MonitorStart
    \/ MonitorFails
    \/ Recv
    \/ WindowClose
    \/ HandleDelLink
    \/ HandleNewLink
    \/ AddressPhase
    \/ RoutePhase
    \/ NotifyIpConfig

Spec == Init /\ [][Next]_vars

\* start-up alone
NextBoot ==
    \/ LoadInitialStateAny
    \/ LoadInitialStateFails
    \/ Serve
    \/ ServeFails
    \/ MonitorStart
    \/ MonitorFails

SpecBoot == Init /\ [][NextBoot]_vars

(***************************************************************************)
(* A burst of address messages for one device inside one debounce window.  *)
(***************************************************************************)
BurstIfindex == 3

\* a dump that ended early holds a part of the kernel's list
PartOf(d, full) ==
    /\ d.v4 \in {<<>>, full.v4}
    /\ d.v6 \in {<<>>, full.v6}

\* watch_netlink receives a NewAddress or DelAddress for the device: the
\* kernel's list has changed again
RecvBurst ==
    /\ pc \in {"idle", "window"}
    /\ BurstIfindex \in DOMAIN devices
    /\ IF pc = "idle"
          THEN /\ nmsgs < MaxMsgs
               /\ nmsgs' = nmsgs + 1
               /\ naddr' = 1
               /\ lastLink' = [ i \in Ifindexes |-> "none" ]
          ELSE /\ naddr < MaxBurst
               /\ naddr' = naddr + 1
               /\ UNCHANGED << nmsgs, lastLink >>
    /\ \E k \in {"NewAddress", "DelAddress"}, d \in AddrDumps :
          /\ d # kernel
          /\ kernel' = d
          /\ pending' = accumulate([kind |-> k, index |-> BurstIfindex], pending)
    /\ pc' = "window"
    /\ boot' = NoBoot
    /\ ops' = <<>>
    /\ UNCHANGED << devices, global_state, connectivity, objects, served, todo,
                    ip_config_notify, nfaults, lastFlags, announced, signalled, lost,
                    downed, bus_ok, user_disconnect_pending, reply, nameservers,
                    resolv, sig, loading, observed, args,
                    ready, expired, input, output,
                    task, call, stream >>

\* the address phase when the dump returns the kernel's list, or a part of it
\* before it fails
AddressPhaseOfKernel ==
    \E out \in AddrOutcomes :
        /\ IF out.failed THEN PartOf(out.read, kernel) ELSE out.read = kernel
        /\ address_phase([ i \in pending.address_changed |-> out ])

NextBurst ==
    \/ LoadInitialState
    \/ LoadInitialStateFails
    \/ Serve
    \/ ServeFails
    \/ MonitorStart
    \/ MonitorFails
    \/ RecvBurst
    \/ WindowClose
    \/ AddressPhaseOfKernel
    \/ NotifyIpConfig

SpecBurst == Init /\ [][NextBurst]_vars

(***************************************************************************)
(* A cable is unplugged: the only message of the window is a NewLink with  *)
(* IFF_LOWER_UP and IFF_RUNNING cleared.                                   *)
(***************************************************************************)
UnpluggedFlags == IFF_UP

RecvUnplug ==
    /\ pc = "idle"
    /\ nmsgs < MaxMsgs
    /\ \E i \in Ifindexes :
          /\ pending' = accumulate([kind |-> "NewLink", index |-> i, name |-> Eth0,
                                    flags |-> UnpluggedFlags], pending)
          /\ lastLink' = [ j \in Ifindexes |-> IF j = i THEN "new" ELSE "none" ]
    /\ pc' = "window"
    /\ nmsgs' = nmsgs + 1
    /\ boot' = NoBoot
    /\ ops' = <<>>
    /\ UNCHANGED << devices, global_state, connectivity, objects, served, todo,
                    ip_config_notify, nfaults, lastFlags, announced, signalled, lost,
                    downed, nameservers, env >>

NextUnplug ==
    \/ LoadInitialState
    \/ LoadInitialStateFails
    \/ Serve
    \/ ServeFails
    \/ MonitorStart
    \/ MonitorFails
    \/ RecvUnplug
    \/ WindowClose
    \/ HandleNewLink
    \/ NotifyIpConfig

SpecUnplug == Init /\ [][NextUnplug]_vars

(***************************************************************************)
(* The resolv.conf files change while the monitor runs; the messages are   *)
(* address messages, one per window.                                       *)
(***************************************************************************)
\* the files are rewritten, removed or made unreadable
WriteResolv ==
    /\ pc \in {"start", "idle"}
    /\ \E f1 \in ResolvFiles, f2 \in ResolvFiles :
          /\ << f1, f2 >> # resolv
          /\ resolv' = << f1, f2 >>
    /\ UNCHANGED << pc, devices, global_state, connectivity, objects, served, pending,
                    todo, ip_config_notify, nmsgs, nfaults, ops, lastFlags, lastLink,
                    announced, signalled, lost, boot, downed, naddr, kernel, bus_ok,
                    user_disconnect_pending, reply, nameservers, sig, loading, observed,
                    args, ready, expired, input, output,
                    task, call, stream >>

RecvAddress ==
    /\ pc = "idle"
    /\ nmsgs < MaxMsgs
    /\ \E i \in Ifindexes :
          pending' = accumulate([kind |-> "NewAddress", index |-> i], pending)
    /\ lastLink' = [ j \in Ifindexes |-> "none" ]
    /\ pc' = "window"
    /\ nmsgs' = nmsgs + 1
    /\ boot' = NoBoot
    /\ ops' = <<>>
    /\ UNCHANGED << devices, global_state, connectivity, objects, served, todo,
                    ip_config_notify, nfaults, lastFlags, announced, signalled, lost,
                    downed, nameservers, env >>

NextResolv ==
    \/ WriteResolv
    \/ LoadInitialState
    \/ LoadInitialStateFails
    \/ Serve
    \/ ServeFails
    \/ MonitorStart
    \/ MonitorFails
    \/ RecvAddress
    \/ WindowClose
    \/ AddressPhase
    \/ NotifyIpConfig

SpecResolv == Init /\ [][NextResolv]_vars

(***************************************************************************)
(* The bus connection fails while the monitor runs: every later send       *)
(* returns an error.                                                       *)
(***************************************************************************)
BusDown ==
    /\ served
    /\ bus_ok
    /\ pc \notin {"exit0", "exit1"}
    /\ bus_ok' = FALSE
    /\ UNCHANGED << pc, devices, global_state, connectivity, objects, served, pending,
                    todo, ip_config_notify, nmsgs, nfaults, ops, lastFlags, lastLink,
                    announced, signalled, lost, boot, downed, naddr, kernel,
                    user_disconnect_pending, reply, nameservers, resolv, sig, loading,
                    observed, args,
                    ready, expired, input, output,
                    task, call, stream >>

NextBus ==
    \/ LoadInitialState
    \/ LoadInitialStateFails
    \/ Serve
    \/ ServeFails
    \/ MonitorStart
    \/ MonitorFails
    \/ Recv
    \/ WindowClose
    \/ HandleDelLink
    \/ HandleNewLink
    \/ AddressPhase
    \/ RoutePhase
    \/ NotifyIpConfig
    \/ BusDown

SpecBus == Init /\ [][NextBus]_vars

(***************************************************************************)
(* nm/manager.rs, nm/device.rs: the method calls that change the admin     *)
(* state of a link.                                                        *)
(***************************************************************************)
\* the object paths a client may pass
\* trailing segments: the ifindexes of the model (one with a leading zero), an
\* ifindex no device has, and a name
Segments == { <<"3">>, <<"0", "7">>, <<"5">>, <<"e", "t", "h">> }

\* the paths a client passes for a parameter of one kind of object
CallPaths(kind) == { ObjectPath(kind, seg) : seg \in Segments } \cup { Root }

Digits == << "0", "1", "2", "3", "4", "5", "6", "7", "8", "9" >>
IsDigit(c) == \E d \in 1..Len(Digits) : Digits[d] = c
DigitValue(c) == (CHOOSE d \in 1..Len(Digits) : Digits[d] = c) - 1

\* str::parse::<i32> on a segment of an object path (no sign can occur in
\* one): the decimal value, or nothing for an empty or non-numeric segment
RECURSIVE parse_digits(_, _)
parse_digits(seg, acc) ==
    IF seg = <<>> THEN acc
    ELSE parse_digits(Tail(seg), acc * Len(Digits) + DigitValue(Head(seg)))

parse_i32(seg) ==
    IF seg = <<>> \/ \E k \in 1..Len(seg) : ~IsDigit(seg[k]) THEN {}
    ELSE { parse_digits(seg, 0) }

\* a variant of resolve_ifindex_from_path that does not look the ifindex up
resolve_ifindex_from_path_unchecked(path) ==
    LET parsed == parse_i32(path.last)
    IN  IF parsed = {} THEN 0 ELSE CHOOSE i \in parsed : TRUE

\* resolve_ifindex_from_path: the last segment parsed as an ifindex of
\* devices; 0 stands for the UnknownObject error
resolve_ifindex_from_path(path) ==
    LET parsed == parse_i32(path.last)
    IN  IF parsed = {} THEN 0
        ELSE LET ifindex == CHOOSE i \in parsed : TRUE
             IN  IF ifindex \in DOMAIN devices THEN ifindex ELSE 0

resolve_device_ifindex(device) == resolve_ifindex_from_path(device)

\* link_set: the kernel accepts the admin change or returns an error
link_set(ifindex, up, ok) ==
    Op(IF ok THEN "kernel" ELSE "error", IF up THEN "link_set_up" ELSE "link_set_down",
       ifindex, 0, 0)

\* what a call leaves alone whatever it returns
CallFrame ==
    /\ pc = "idle"
    /\ UNCHANGED << pc, devices, global_state, connectivity, objects, served, pending,
                    todo, ip_config_notify, nmsgs, nfaults, lastFlags, lastLink,
                    announced, signalled, lost, boot, downed, naddr, kernel, bus_ok,
                    nameservers, resolv, sig, loading, observed ,
                    ready, expired, input, output,
                    task, call, stream >>

\* a call that only runs link_set_up or link_set_down on the resolved ifindex
LinkCall(method, ifindex, up, ok) ==
    /\ CallFrame
    /\ IF ifindex = 0
          THEN /\ reply' = << "UnknownObject", 0 >>
               /\ ops' = << Op("call", method, 0, 0, 0) >>
          ELSE /\ reply' = << IF ok THEN "Ok" ELSE "Failed", ifindex >>
               /\ ops' = << Op("call", method, ifindex, 0, 0), link_set(ifindex, up, ok) >>
    /\ UNCHANGED user_disconnect_pending

AddAndActivateConnection ==
    \E device \in CallPaths("Devices"), ok \in BOOLEAN :
        /\ LinkCall("AddAndActivateConnection", resolve_device_ifindex(device), TRUE, ok)
        /\ args' = [connection |-> Root, device |-> device]

ActivateConnection ==
    \E connection \in CallPaths("Settings"), device \in CallPaths("Devices"), ok \in BOOLEAN :
        /\ LinkCall("ActivateConnection",
                    IF device = Root THEN resolve_ifindex_from_path(connection)
                                     ELSE resolve_device_ifindex(device),
                    TRUE, ok)
        /\ args' = [connection |-> connection, device |-> device]

DeactivateConnection ==
    \E active_connection \in CallPaths("ActiveConnection"), ok \in BOOLEAN :
        LET ifindex == resolve_ifindex_from_path(active_connection)
        IN  /\ CallFrame
            /\ args' = [connection |-> active_connection, device |-> Root]
            /\ IF ifindex = 0
                  THEN /\ reply' = << "UnknownObject", 0 >>
                       /\ ops' = << Op("call", "DeactivateConnection", 0, 0, 0) >>
                       /\ UNCHANGED user_disconnect_pending
                  ELSE /\ user_disconnect_pending' = user_disconnect_pending \cup {ifindex}
                       /\ reply' = << IF ok THEN "Ok" ELSE "Failed", ifindex >>
                       /\ ops' = << Op("call", "DeactivateConnection", ifindex, 0, 0),
                                    Op("write", "user_disconnect_pending", ifindex, 0, 0),
                                    link_set(ifindex, FALSE, ok) >>

\* Device.Disconnect on a registered Device object
Disconnect ==
    \E ifindex \in Ifindexes, ok \in BOOLEAN :
        /\ has_interface("Device", ifindex)
        /\ CallFrame
        /\ args' = NoArgs
        /\ reply' = << IF ok THEN "Ok" ELSE "Failed", ifindex >>
        /\ ops' = << Op("call", "Disconnect", ifindex, 0, 0), link_set(ifindex, FALSE, ok) >>
        /\ UNCHANGED user_disconnect_pending

NextCalls ==
    \/ LoadInitialState
    \/ LoadInitialStateFails
    \/ Serve
    \/ ServeFails
    \/ MonitorStart
    \/ MonitorFails
    \/ AddAndActivateConnection
    \/ ActivateConnection
    \/ DeactivateConnection
    \/ Disconnect

SpecCalls == Init /\ [][NextCalls]_vars

(***************************************************************************)
(* Shutdown: monitor::run selects over watch_netlink, ctrl_c() and         *)
(* sigterm.recv().  watch_netlink is one branch of the select: each time   *)
(* it yields, the other two branches are polled, so a delivered signal     *)
(* completes the select at the next await of the watcher, wherever that    *)
(* is; the watcher's future is dropped there and run returns Ok(()).       *)
(***************************************************************************)
Signals == {"SIGINT", "SIGTERM"}

\* the positions of watch_netlink: waiting for the first message of a batch,
\* inside the debounce window, inside process_batch
MonitorStates == {"idle", "window", "del", "new", "addr", "route", "notify"}

\* the kernel delivers a signal to the running monitor
Deliver ==
    /\ pc \in MonitorStates
    /\ sig = "none"
    /\ \E s \in Signals : sig' = s
    /\ ops' = <<>>
    /\ UNCHANGED << pc, devices, global_state, connectivity, objects, served, pending, todo,
                    ip_config_notify, nmsgs, nfaults, lastFlags, lastLink, announced,
                    signalled, lost, boot, downed, nameservers, naddr, kernel, bus_ok,
                    user_disconnect_pending, reply, resolv, loading, observed, args,
                    ready, expired, input, output,
                    task, call, stream >>

\* the select completes on the signal's branch: the watcher is dropped where it
\* is, run returns and main ends the process
Shutdown ==
    /\ pc \in MonitorStates
    /\ sig # "none"
    /\ pc' = main_exit(monitor_run(sig))
    /\ ops' = << Op("shutdown", sig, 0, 0, 0) >>
    /\ UNCHANGED << devices, global_state, connectivity, objects, served, pending, todo,
                    ip_config_notify, nmsgs, nfaults, lastFlags, lastLink, announced,
                    signalled, lost, boot, downed, nameservers, env >>

NextShutdown ==
    \/ LoadInitialState
    \/ LoadInitialStateFails
    \/ Serve
    \/ ServeFails
    \/ MonitorStart
    \/ MonitorFails
    \/ RecvAddress
    \/ WindowClose
    \/ AddressPhase
    \/ NotifyIpConfig
    \/ Deliver
    \/ Shutdown

\* the signal branch of the select is polled whenever the watcher yields, and
\* the watcher yields at every await: a delivered signal is acted on
SpecShutdown == Init /\ [][NextShutdown]_vars /\ WF_vars(Shutdown)

(***************************************************************************)
(* The route phase lock by lock.  reload_gateways takes the write lock     *)
(* once to zero every gateway and releases it; load_default_gateways then  *)
(* awaits the two dumps and takes the write lock anew for each default     *)
(* route; process_batch takes it once more for recompute_global_state.     *)
(* A D-Bus property getter takes the read lock between any two of these.   *)
(***************************************************************************)
RecvRoute ==
    /\ pc = "idle"
    /\ nmsgs < MaxMsgs
    /\ \E k \in {"NewRoute", "DelRoute"} : pending' = accumulate([kind |-> k], pending)
    /\ lastLink' = [ j \in Ifindexes |-> "none" ]
    /\ pc' = "window"
    /\ nmsgs' = nmsgs + 1
    /\ boot' = NoBoot
    /\ ops' = <<>>
    /\ UNCHANGED << devices, global_state, connectivity, objects, served, todo,
                    ip_config_notify, nfaults, lastFlags, announced, signalled, lost,
                    downed, nameservers, env >>

\* reload_gateways, first block: every gateway is zeroed under one write lock
RouteZero ==
    /\ pc = "route"
    /\ ~loading.on
    /\ \E routes \in RouteOutcomes :
          /\ nfaults' = nfaults + Fault(routes.failed)
          /\ nfaults' <= MaxFaults
          /\ loading' = [on |-> TRUE, rest |-> routes.read, dump |-> routes.read,
                         failed |-> routes.failed, before |-> devices]
    /\ devices' = reload_gateways(devices, <<>>)
    /\ observed' = NotObserved
    /\ ops' = << Op("write", "gateways", 0, 0, 0) >>
    /\ UNCHANGED << pc, global_state, connectivity, objects, served, pending, todo,
                    ip_config_notify, nmsgs, lastFlags, lastLink, announced, signalled,
                    lost, boot, downed, nameservers, naddr, kernel, bus_ok,
                    user_disconnect_pending, reply, resolv, sig, args,
                    ready, expired, input, output,
                    task, call, stream >>

\* load_default_gateways, one message of a dump: a default route is written
\* to its device under a write lock of its own
RouteLoad ==
    /\ pc = "route"
    /\ loading.on
    /\ loading.rest # <<>>
    /\ devices' = load_default_gateways(devices, << Head(loading.rest) >>)
    /\ loading' = [loading EXCEPT !.rest = Tail(@)]
    /\ ops' = << Op("write", "gateways", 0, 0, 0) >>
    /\ UNCHANGED << pc, global_state, connectivity, objects, served, pending, todo,
                    ip_config_notify, nmsgs, nfaults, lastFlags, lastLink, announced,
                    signalled, lost, boot, downed, nameservers, naddr, kernel, bus_ok,
                    user_disconnect_pending, reply, resolv, sig, observed, args,
                    ready, expired, input, output,
                    task, call, stream >>

\* the dumps are over (or one failed): process_batch recomputes the global
\* state and notifies
RouteFinish ==
    /\ pc = "route"
    /\ loading.on
    /\ loading.rest = <<>>
    /\ pc' = AfterPhase(pc, pending)
    /\ LET g == recompute_global_state(devices)
       IN  /\ global_state' = g.global_state
           /\ connectivity' = g.connectivity
           /\ ops' = << Op("query", "routes", 0, Len(loading.dump), 0) >>
                     \o (IF loading.failed THEN << Op("error", "routes", 0, 0, 0) >> ELSE <<>>)
                     \o << Op("write", "global_state", 0, 0, 0) >>
                     \o route_phase_signals(global_state, g)
    /\ ip_config_notify' = ip_config_notify \cup DOMAIN devices
    /\ loading' = [loading EXCEPT !.on = FALSE]
    /\ pending' = Consumed(pc, pending)
    /\ signalled' = (signalled \/ HasSignal(ops'))
    /\ lost' = LostAfter(ops')
    /\ UNCHANGED << devices, objects, served, todo, nmsgs, nfaults, lastFlags, lastLink,
                    announced, boot, downed, nameservers, naddr, kernel, bus_ok,
                    user_disconnect_pending, reply, resolv, sig, observed, args,
                    ready, expired, input, output,
                    task, call, stream >>

\* a D-Bus property getter (Manager.PrimaryConnection, a device's gateways)
\* acquires the read lock and reads the table
Read ==
    /\ served
    /\ pc \in MonitorStates
    /\ observed' = [during |-> loading.on, devices |-> devices]
    /\ observed' # observed
    /\ ops' = << Op("read", "devices", 0, 0, 0) >>
    /\ UNCHANGED << pc, devices, global_state, connectivity, objects, served, pending, todo,
                    ip_config_notify, nmsgs, nfaults, lastFlags, lastLink, announced,
                    signalled, lost, boot, downed, nameservers, naddr, kernel, bus_ok,
                    user_disconnect_pending, reply, resolv, sig, loading, args,
                    ready, expired, input, output,
                    task, call, stream >>

NextReader ==
    \/ LoadInitialState
    \/ LoadInitialStateFails
    \/ Serve
    \/ ServeFails
    \/ MonitorStart
    \/ MonitorFails
    \/ RecvRoute
    \/ WindowClose
    \/ RouteZero
    \/ RouteLoad
    \/ RouteFinish
    \/ NotifyIpConfig
    \/ Read

SpecReader == Init /\ [][NextReader]_vars

(***************************************************************************)
(* The debounce window message by message.  The kernel puts messages into  *)
(* the stream at its own pace.  The first one read opens the window and    *)
(* fixes the deadline; the inner select is biased: it takes a waiting      *)
(* message whenever there is one and looks at the timer only when there is *)
(* none.                                                                   *)
(***************************************************************************)
\* the kernel emits an address message
Arrive ==
    /\ pc \in MonitorStates
    /\ ready < MaxReady
    /\ ready' = ready + 1
    /\ ops' = <<>>
    /\ UNCHANGED << pc, devices, global_state, connectivity, objects, served, pending, todo,
                    ip_config_notify, nmsgs, nfaults, lastFlags, lastLink, announced,
                    signalled, lost, boot, downed, nameservers, naddr, kernel, bus_ok,
                    user_disconnect_pending, reply, resolv, sig, loading, observed, args,
                    expired, input, output,
                    task, call, stream >>

\* what reading one message of the stream does to the batch
Take ==
    /\ ready > 0
    /\ ready' = ready - 1
    /\ \E i \in Ifindexes :
          pending' = accumulate([kind |-> "NewAddress", index |-> i], pending)
    /\ ops' = <<>>
    /\ UNCHANGED << devices, global_state, connectivity, objects, served, todo,
                    ip_config_notify, nfaults, lastFlags, announced, signalled, lost,
                    downed, nameservers, naddr, kernel, bus_ok, user_disconnect_pending,
                    reply, resolv, sig, loading, observed, args, input, output,
                    task, call, stream >>

\* the outer loop reads the first message of a batch; the deadline is set
First ==
    /\ pc = "idle"
    /\ nmsgs < MaxMsgs
    /\ Take
    /\ pc' = "window"
    /\ expired' = FALSE
    /\ nmsgs' = nmsgs + 1
    /\ lastLink' = [ j \in Ifindexes |-> "none" ]
    /\ boot' = NoBoot

\* DEBOUNCE_DURATION passes
Expire ==
    /\ pc = "window"
    /\ ~expired
    /\ expired' = TRUE
    /\ ops' = <<>>
    /\ UNCHANGED << pc, devices, global_state, connectivity, objects, served, pending, todo,
                    ip_config_notify, nmsgs, nfaults, lastFlags, lastLink, announced,
                    signalled, lost, boot, downed, nameservers, naddr, kernel, bus_ok,
                    user_disconnect_pending, reply, resolv, sig, loading, observed, args,
                    ready, input, output,
                    task, call, stream >>

\* the inner select, first branch: a message is waiting, before or after the
\* deadline
Drain ==
    /\ pc = "window"
    /\ Take
    /\ UNCHANGED << pc, expired, nmsgs, lastLink, boot >>

\* the inner select, second branch: no message is waiting and the deadline
\* has passed
Close ==
    /\ ready = 0
    /\ expired
    /\ WindowClose

NextWindow ==
    \/ LoadInitialState
    \/ LoadInitialStateFails
    \/ Serve
    \/ ServeFails
    \/ MonitorStart
    \/ MonitorFails
    \/ Arrive
    \/ First
    \/ Expire
    \/ Drain
    \/ Close
    \/ AddressPhase
    \/ NotifyIpConfig

\* time passes; the watcher is polled while a branch of its select is ready,
\* and a poll that finds the stream empty after the deadline closes the
\* window; the phases of a batch run to their end
SpecWindow ==
    /\ Init
    /\ [][NextWindow]_vars
    /\ WF_vars(Expire)
    /\ WF_vars(Drain \/ Close)
    /\ SF_vars(Close)
    /\ WF_vars(AddressPhase)
    /\ WF_vars(NotifyIpConfig)

(***************************************************************************)
(* mapping.rs on its own: each function applied once to arguments drawn    *)
(* from bounded sets.                                                      *)
(***************************************************************************)
\* a bit no function of mapping.rs looks at
OtherBit == IFF_UP + IFF_UP

\* every combination of the four flags and the other bit
PureFlags ==
    { u * IFF_UP + o * OtherBit + r * IFF_RUNNING + l * IFF_LOWER_UP + d * IFF_DORMANT :
        u \in {0, 1}, o \in {0, 1}, r \in {0, 1}, l \in {0, 1}, d \in {0, 1} }

\* a device with or without an address and a gateway of each family
PureDevice(i, c) ==
    [ DeviceInfo_new(i, Eth0) EXCEPT
        !.ipv4_addrs = IF c[1] THEN << Addr4 >> ELSE <<>>,
        !.ipv6_addrs = IF c[2] THEN << Addr6 >> ELSE <<>>,
        !.gateway4 = IF c[3] THEN Gw4 ELSE None,
        !.gateway6 = IF c[4] THEN Gw6 ELSE None ]

\* every table over the ifindexes
PureTables ==
    UNION { { [ i \in S |-> PureDevice(i, c[i]) ] :
                c \in [ S -> BOOLEAN \X BOOLEAN \X BOOLEAN \X BOOLEAN ] } :
            S \in SUBSET Ifindexes }

\* the global states and every value around them
PureStates == 0..(NM_STATE_CONNECTED_GLOBAL + NM_STATE_DISCONNECTED)

PureInputs ==
    { [NoInput EXCEPT !.fn = "netlink_flags_to_nm_device", !.flags = f,
                      !.has_ipv4 = v4, !.has_ipv6 = v6] :
        f \in PureFlags, v4 \in BOOLEAN, v6 \in BOOLEAN }
    \cup { [NoInput EXCEPT !.fn = "deduce_global_state", !.devices = t] : t \in PureTables }
    \cup { [NoInput EXCEPT !.fn = "global_state_to_connectivity", !.global_state = g] :
             g \in PureStates }

InitPure ==
    /\ Constructed
    /\ input \in PureInputs

\* what applying a function leaves alone
PureFrame ==
    /\ output = NoOutput
    /\ UNCHANGED << pc, devices, global_state, connectivity, objects, served, pending, todo,
                    ip_config_notify, nmsgs, nfaults, ops, lastFlags, lastLink, announced,
                    signalled, lost, boot, downed, nameservers, naddr, kernel, bus_ok,
                    user_disconnect_pending, reply, resolv, sig, loading, observed, args,
                    ready, expired, input,
                    task, call, stream >>

MapFlags ==
    /\ input.fn = "netlink_flags_to_nm_device"
    /\ PureFrame
    /\ output' = [fn |-> input.fn,
                  value |-> netlink_flags_to_nm_device(input.flags, input.has_ipv4,
                                                       input.has_ipv6)]

DeduceGlobalState ==
    /\ input.fn = "deduce_global_state"
    /\ PureFrame
    /\ output' = [fn |-> input.fn, value |-> deduce_global_state(input.devices)]

MapConnectivity ==
    /\ input.fn = "global_state_to_connectivity"
    /\ PureFrame
    /\ output' = [fn |-> input.fn, value |-> global_state_to_connectivity(input.global_state)]

NextPure ==
    \/ MapFlags
    \/ DeduceGlobalState
    \/ MapConnectivity

SpecPure == InitPure /\ [][NextPure]_vars

(***************************************************************************)
(* The operations as sequences of steps on the AppState lock and on the    *)
(* kernel: "acquire" and "release" of the write guard as the scopes of the *)
(* source place them, "write" of a part of AppState, "send" of a kernel    *)
(* request, "await" of one reply of the kernel, "emit" of the signals.     *)
(***************************************************************************)
Locked(writes) ==
    << Ins("acquire", "write") >>
    \o [ k \in 1..Len(writes) |-> Ins("write", writes[k]) ]
    \o << Ins("release", "write") >>

\* one await per message of the dump and one for its end
Awaits(what, n) == [ k \in 1..(n + 1) |-> Ins("await", what) ]

\* reload_addresses_for: the dump is collected into local vectors, then the
\* device is written under a write guard
reload_addresses_for_steps(n) ==
    << Ins("send", "addresses") >> \o Awaits("addresses", n) \o Locked(<< "addresses" >>)

\* the messages of a route dump after the request: each default route is
\* written under a guard of its own, dropped at the end of the `if let` block
RECURSIVE route_dump_steps(_)
route_dump_steps(routes) ==
    IF routes = <<>> THEN << Ins("await", "routes") >>
    ELSE << Ins("await", "routes") >>
         \o (IF Head(routes) THEN Locked(<< "gateway" >>) ELSE <<>>)
         \o route_dump_steps(Tail(routes))

\* a variant of load_default_gateways that takes the write guard once, before
\* the dumps, and holds it to the end
load_default_gateways_steps_one_guard(r4, r6) ==
    << Ins("acquire", "write"), Ins("send", "routes") >>
    \o [ k \in 1..(Len(r4) + 1) |-> Ins("await", "routes") ]
    \o << Ins("send", "routes") >>
    \o [ k \in 1..(Len(r6) + 1) |-> Ins("await", "routes") ]
    \o << Ins("write", "gateway"), Ins("release", "write") >>

\* load_default_gateways: the IPv4 dump, then the IPv6 dump
load_default_gateways_steps(r4, r6) ==
    << Ins("send", "routes") >> \o route_dump_steps(r4)
    \o << Ins("send", "routes") >> \o route_dump_steps(r6)

\* reload_gateways: the zeroing block, then load_default_gateways
reload_gateways_steps(r4, r6) ==
    Locked(<< "gateways" >>) \o load_default_gateways_steps(r4, r6)

\* reload_nameservers: the files are read, then nameservers is written
reload_nameservers_steps == Locked(<< "nameservers" >>)

\* process_batch, address phase with one ifindex
address_phase_steps(n) ==
    reload_addresses_for_steps(n) \o reload_nameservers_steps
    \o Locked(<< "nm_state", "global_state" >>) \o << Ins("emit", "signals") >>

\* process_batch, route phase
route_phase_steps(r4, r6) ==
    reload_gateways_steps(r4, r6) \o Locked(<< "global_state" >>)
    \o << Ins("emit", "signals") >>

\* handle_new_link, hotplug branch
hotplug_steps(n, r4, r6) ==
    Locked(<< "devices" >>) \o reload_addresses_for_steps(n)
    \o reload_gateways_steps(r4, r6) \o reload_nameservers_steps
    \o Locked(<< "nm_state" >>) \o << Ins("emit", "signals") >>

\* handle_new_link, update branch; handle_del_link
link_update_steps == Locked(<< "nm_state", "global_state" >>) \o << Ins("emit", "signals") >>
del_link_steps == Locked(<< "devices", "global_state" >>) \o << Ins("emit", "signals") >>

\* Manager.DeactivateConnection and the calls that only set the link
deactivate_connection_steps ==
    Locked(<< "user_disconnect_pending" >>)
    \o << Ins("send", "link_set"), Ins("await", "link_set") >>
link_set_steps == << Ins("send", "link_set"), Ins("await", "link_set") >>

\* the replies of a route dump: which of its messages are default routes
DumpShapes == UNION { [ 1..n -> BOOLEAN ] : n \in 0..MaxDump }

Operations ==
    { address_phase_steps(n) : n \in 0..MaxDump }
    \cup { route_phase_steps(r4, r6) : r4 \in DumpShapes, r6 \in DumpShapes }
    \cup { hotplug_steps(n, r4, << >>) : n \in 0..MaxDump, r4 \in DumpShapes }
    \cup { link_update_steps, del_link_steps, deactivate_connection_steps, link_set_steps }

\* what a step of an operation leaves alone
TaskFrame ==
    UNCHANGED << pc, devices, global_state, connectivity, objects, served, pending, todo,
                 ip_config_notify, nmsgs, nfaults, ops, lastFlags, lastLink, announced,
                 signalled, lost, boot, downed, nameservers, naddr, kernel, bus_ok,
                 user_disconnect_pending, reply, resolv, sig, loading, observed, args,
                 ready, expired, input, output, call, stream >>

Advance(guard) ==
    task' = [prog |-> Tail(task.prog), guard |-> guard, last |-> Head(task.prog)]

NextIs(ops_) == task.prog # <<>> /\ Head(task.prog).op \in ops_

\* an operation starts
Begin ==
    /\ task.prog = <<>>
    /\ \E steps \in Operations : task' = [prog |-> steps, guard |-> FALSE, last |-> Ins("none", "none")]
    /\ TaskFrame

\* shared.write().await returns the guard (the operation holds none: a second
\* acquisition would wait for ever)
Acquire ==
    /\ NextIs({"acquire"})
    /\ ~task.guard
    /\ Advance(TRUE)
    /\ TaskFrame

\* the guard goes out of scope
Release ==
    /\ NextIs({"release"})
    /\ Advance(FALSE)
    /\ TaskFrame

\* a request is sent to the kernel, or one reply of the kernel is awaited
KernelStep ==
    /\ NextIs({"send", "await"})
    /\ Advance(task.guard)
    /\ TaskFrame

\* a part of AppState is written; the signals are emitted
WriteStep ==
    /\ NextIs({"write"})
    /\ Advance(task.guard)
    /\ TaskFrame

EmitStep ==
    /\ NextIs({"emit"})
    /\ Advance(task.guard)
    /\ TaskFrame

NextLocks ==
    \/ Begin
    \/ Acquire
    \/ Release
    \/ KernelStep
    \/ WriteStep
    \/ EmitStep

SpecLocks == Init /\ [][NextLocks]_vars

(***************************************************************************)
(* Clients call methods and read properties while the monitor applies     *)
(* batches: a handler runs on the bus connection's executor and the        *)
(* monitor on its own task, so a batch step may run between two awaits of  *)
(* a handler.  The kernel reports links that are gone.                     *)
(***************************************************************************)
\* the methods of Manager that resolve a path and then set the link up or down
LinkMethods == { "ActivateConnection", "AddAndActivateConnection", "DeactivateConnection" }

\* watch_netlink receives a DelLink message
RecvDelLink ==
    /\ pc \in {"idle", "window"}
    /\ nmsgs < MaxMsgs
    /\ \E i \in Ifindexes :
          /\ pending' = accumulate([kind |-> "DelLink", index |-> i], pending)
          /\ LET before == IF pc = "idle" THEN [ j \in Ifindexes |-> "none" ] ELSE lastLink
             IN  lastLink' = [before EXCEPT ![i] = "del"]
    /\ pc' = "window"
    /\ nmsgs' = nmsgs + 1
    /\ boot' = NoBoot
    /\ ops' = <<>>
    /\ UNCHANGED << devices, global_state, connectivity, objects, served, todo,
                    ip_config_notify, nfaults, lastFlags, announced, signalled, lost,
                    downed, nameservers, env >>

\* what a step of a handler leaves alone
ClientFrame ==
    /\ served
    /\ pc \in MonitorStates
    /\ UNCHANGED << pc, devices, global_state, connectivity, objects, served, pending,
                    todo, ip_config_notify, nmsgs, nfaults, lastFlags, lastLink,
                    announced, signalled, lost, boot, downed, naddr, kernel, bus_ok,
                    nameservers, resolv, sig, loading, observed, args, ready, expired,
                    input, output, task, stream >>

\* the first await of the three handlers: resolve_ifindex_from_path under the
\* read lock, which is released when it returns
Resolve ==
    \E method \in LinkMethods, path \in CallPaths("Devices") :
        LET ifindex == resolve_ifindex_from_path(path)
        IN  /\ ClientFrame
            /\ call = NoCall
            /\ IF ifindex = 0
                  THEN /\ call' = NoCall
                       /\ reply' = << "UnknownObject", 0 >>
                  ELSE /\ call' = [method |-> method, ifindex |-> ifindex, at |-> "resolved"]
                       /\ reply' = NoReply
            /\ ops' = << Op("call", method, ifindex, 0, 0) >>
            /\ UNCHANGED user_disconnect_pending

\* a variant in which every handler marks the device as disconnected by the user
take_handle_marks_always(method, ifindex, marked) == marked \cup {ifindex}

\* the block in which a handler clones the netlink handle: under the write
\* lock in deactivate_connection, which marks the device, under the read lock
\* in the other two
take_handle(method, ifindex, marked) ==
    IF method = "DeactivateConnection" THEN marked \cup {ifindex} ELSE marked

TakeHandle ==
    /\ ClientFrame
    /\ call.at = "resolved"
    /\ call' = [call EXCEPT !.at = "handle"]
    /\ user_disconnect_pending' =
           take_handle(call.method, call.ifindex, user_disconnect_pending)
    /\ ops' = IF call.method = "DeactivateConnection"
                 THEN << Op("write", "user_disconnect_pending", call.ifindex, 0, 0) >>
                 ELSE << Op("read", "netlink_handle", call.ifindex, 0, 0) >>
    /\ UNCHANGED reply

\* link_set_up or link_set_down is awaited and the handler returns
IssueLinkSet ==
    \E ok \in BOOLEAN :
        /\ ClientFrame
        /\ call.at = "handle"
        /\ call' = NoCall
        /\ reply' = << IF ok THEN "Ok" ELSE "Failed", call.ifindex >>
        /\ ops' = << link_set(call.ifindex, call.method # "DeactivateConnection", ok) >>
        /\ UNCHANGED user_disconnect_pending

\* Device.Disconnect on an object the object server still has
DeviceDisconnect ==
    \E ifindex \in Ifindexes, ok \in BOOLEAN :
        /\ has_interface("Device", ifindex)
        /\ ClientFrame
        /\ call = NoCall
        /\ reply' = << IF ok THEN "Ok" ELSE "Failed", ifindex >>
        /\ ops' = << Op("call", "Disconnect", ifindex, 0, 0), link_set(ifindex, FALSE, ok) >>
        /\ UNCHANGED << user_disconnect_pending, call >>

\* GetDevices, GetAllDevices, GetDeviceByIpIface, the methods of Settings and
\* of a settings connection, and every property getter: the table is read
\* under the read lock, or not at all
ReadCall ==
    \E method \in { "GetDevices", "GetDeviceByIpIface", "ListConnections", "GetSettings", "Get" } :
        /\ ClientFrame
        /\ call = NoCall
        /\ reply' = << "Ok", Cardinality(DOMAIN devices) >>
        /\ ops' = << Op("call", method, 0, 0, 0), Op("read", "devices", 0, 0, 0) >>
        /\ UNCHANGED << user_disconnect_pending, call >>

NextClients ==
    \/ LoadInitialState
    \/ LoadInitialStateFails
    \/ Serve
    \/ ServeFails
    \/ MonitorStart
    \/ MonitorFails
    \/ RecvDelLink
    \/ WindowClose
    \/ HandleDelLink
    \/ NotifyIpConfig
    \/ Resolve
    \/ TakeHandle
    \/ IssueLinkSet
    \/ DeviceDisconnect
    \/ ReadCall

SpecClients == Init /\ [][NextClients]_vars

(***************************************************************************)
(* The stream of the multicast socket message by message, each with the    *)
(* batch it ends up in.  The stream is a queue: the kernel appends to it   *)
(* whatever watch_netlink is doing, and messages.next() removes its head.  *)
(***************************************************************************)
\* what a frame of the stream leaves alone
StreamFrame ==
    UNCHANGED << devices, global_state, connectivity, objects, served, todo,
                 ip_config_notify, nfaults, lastFlags, announced, signalled, lost,
                 downed, nameservers, naddr, kernel, bus_ok, user_disconnect_pending,
                 reply, resolv, sig, loading, observed, args, input, output, task, call >>

\* the kernel emits a message, whatever the monitor is doing
Emit ==
    /\ pc \in MonitorStates
    /\ stream.arrived < MaxArrived
    /\ ready < MaxReady
    /\ ready' = ready + 1
    /\ stream' = [stream EXCEPT !.arrived = @ + 1]
    /\ ops' = <<>>
    /\ StreamFrame
    /\ UNCHANGED << pc, pending, nmsgs, lastLink, boot, expired >>

\* a variant of messages.next() that drops what else is waiting
stream_next_drops_rest(waiting) == 0

\* messages.next() on a stream with messages waiting: the head is removed
stream_next(waiting) == waiting - 1

\* messages.next() returns the head of the stream, which is accumulated into
\* the pending events of batch
Next_message(batch) ==
    /\ ready > 0
    /\ ready' = stream_next(ready)
    /\ stream' = [stream EXCEPT !.taken = Append(@, batch)]
    /\ \E i \in Ifindexes :
          pending' = accumulate([kind |-> "NewAddress", index |-> i], pending)
    /\ ops' = <<>>
    /\ StreamFrame

\* the outer loop of watch_netlink reads the first message of a batch
ReadFirst ==
    /\ pc = "idle"
    /\ nmsgs < MaxMsgs
    /\ Next_message(nmsgs + 1)
    /\ pc' = "window"
    /\ expired' = FALSE
    /\ nmsgs' = nmsgs + 1
    /\ lastLink' = [ j \in Ifindexes |-> "none" ]
    /\ boot' = NoBoot

\* the first branch of the inner select reads a further message
ReadMore ==
    /\ pc = "window"
    /\ Next_message(nmsgs)
    /\ UNCHANGED << pc, expired, nmsgs, lastLink, boot >>

NextStream ==
    \/ LoadInitialState
    \/ LoadInitialStateFails
    \/ Serve
    \/ ServeFails
    \/ MonitorStart
    \/ MonitorFails
    \/ Emit
    \/ ReadFirst
    \/ Expire
    \/ ReadMore
    \/ Close
    \/ AddressPhase
    \/ NotifyIpConfig

SpecStream == Init /\ [][NextStream]_vars

(***************************************************************************)
(* The kernel changes the addresses of a device between the initial dump   *)
(* and the bind of the multicast socket.  load_initial_state reads the     *)
(* kernel through a socket of its own; the socket of watch_netlink joins   *)
(* the multicast groups only when it is bound, and the kernel sends a      *)
(* change to the sockets that are members at that moment.                  *)
(***************************************************************************)
\* the initial load when the address dump of the device returns the kernel's list
LoadOfKernel ==
    /\ LoadInitialState
    /\ BurstIfindex \in DOMAIN devices'
    /\ boot'.addrs[BurstIfindex] = kernel

\* the kernel changes the addresses of the device after the initial dump and
\* before the bind: no socket of the program is a member of the groups
ChangeBeforeBind ==
    /\ pc \in {"loaded", "monitor"}
    /\ \E d \in AddrDumps :
          /\ d # kernel
          /\ kernel' = d
    /\ ops' = <<>>
    /\ UNCHANGED << pc, devices, global_state, connectivity, objects, served, pending, todo,
                    ip_config_notify, nmsgs, nfaults, lastFlags, lastLink, announced,
                    signalled, lost, boot, downed, nameservers, naddr, bus_ok,
                    user_disconnect_pending, reply, resolv, sig, loading, observed, args,
                    ready, expired, input, output, task, call, stream >>

\* the address phase when the dump succeeds and returns the kernel's list
AddressPhaseOfKernelOk ==
    address_phase([ i \in pending.address_changed |-> [read |-> kernel, failed |-> FALSE] ])

NextGap ==
    \/ LoadOfKernel
    \/ Serve
    \/ MonitorStart
    \/ ChangeBeforeBind
    \/ RecvBurst
    \/ WindowClose
    \/ AddressPhaseOfKernelOk
    \/ NotifyIpConfig

\* the start-up goes on and a batch runs to its end; the kernel is free to
\* make no further change
SpecGap ==
    /\ Init
    /\ [][NextGap]_vars
    /\ WF_vars(Serve)
    /\ WF_vars(MonitorStart)
    /\ WF_vars(WindowClose)
    /\ WF_vars(AddressPhaseOfKernelOk)
    /\ WF_vars(NotifyIpConfig)

(***************************************************************************)
(* nm/signals.rs: the properties notify_global_state_changed reads from    *)
(* the table for the Manager's PropertiesChanged                           *)
(***************************************************************************)
\* a variant that lists the active connection of every device that holds an
\* address
changed_active_connections_with_ip(devs) ==
    { active_connection_path(i) : i \in { j \in DOMAIN devs : has_ip_address(devs[j]) } }

\* ActiveConnections of the signal: the devices whose nm_state is Activated
changed_active_connections(devs) ==
    { active_connection_path(i) : i \in { j \in DOMAIN devs : devs[j].nm_state = DEV_ACTIVATED } }

\* PrimaryConnection of the signal: the values the find may return (the first
\* Activated device with a gateway in the iteration order of the table, or "/")
changed_primary_connection(devs) ==
    LET matches == { i \in DOMAIN devs :
                        /\ devs[i].nm_state = DEV_ACTIVATED
                        /\ (devs[i].gateway4 # None \/ devs[i].gateway6 # None) }
    IN  IF matches = {} THEN {root_path}
        ELSE { active_connection_path(i) : i \in matches }

(***************************************************************************)
(* Properties.                                                             *)
(***************************************************************************)
\* watch_netlink waits for a message after at least one message was received:
\* every batch so far has completed
BatchCompleted == pc = "idle" /\ nmsgs > 0

\* C1: after every completed batch, whatever kinds of events it held,
\* global_state is deduce_global_state(devices) and connectivity is
\* global_state_to_connectivity(global_state).
C1_GlobalStateDerived ==
    BatchCompleted =>
        /\ global_state = deduce_global_state(devices)
        /\ connectivity = global_state_to_connectivity(global_state)

\* C2: after the initial load and after every completed batch, the state of
\* every device is netlink_flags_to_nm_device of the last link flags seen for
\* it and of whether its stored address lists are non-empty (the exception the
\* claim allows for a device below IpConfig is never needed).
C2_DeviceStateDerived ==
    pc \in {"loaded", "idle"} =>
        \A i \in DOMAIN devices :
            devices[i].nm_state =
                netlink_flags_to_nm_device(lastFlags[i], devices[i].ipv4_addrs # <<>>,
                                           devices[i].ipv6_addrs # <<>>)

\* C2 witness: a batch has completed whose address phase gave an address to a
\* device that is below IpConfig
C2_Witness ==
    /\ BatchCompleted
    /\ \E i \in DOMAIN devices :
          /\ devices[i].nm_state < DEV_IP_CONFIG
          /\ has_ip_address(devices[i])
          /\ \E k \in 1..Len(ops) : ops[k][2] = "IP4Config.PropertiesChanged" /\ ops[k][3] = i

\* C3: after every completed batch, whatever the register and unregister
\* calls returned, the ifindexes of devices are the ifindexes with registered
\* objects: every object of a device in the table is registered, and no
\* object of an ifindex outside the table is.
C3_ObjectsMatchDevices ==
    BatchCompleted =>
        \A i \in Ifindexes :
            IF i \in DOMAIN devices
                THEN ObjectsOf(i) \subseteq objects
                ELSE ObjectsOf(i) \cap objects = {}

\* the positions of ops that read the kernel or write AppState
C4_QueriesAndWrites(s) == OpsOfKind(s, "query") \cup OpsOfKind(s, "write")

\* a step of a batch that reads the kernel or writes AppState does so before
\* any signal of the batch
C4_Step ==
    pc \in {"del", "new", "addr", "route", "notify"} =>
        /\ \A k \in OpsOfKind(ops', "signal") :
              \A j \in C4_QueriesAndWrites(ops') : j < k
        /\ signalled => C4_QueriesAndWrites(ops') = {}

\* C4: within a batch no kernel query and no AppState write happens after
\* the first signal of the batch: not later in the same step, and not in a
\* later step of the batch.
C4_SignalsLast == [][C4_Step]_vars

\* C5: a batch is applied in the order DelLink, NewLink, Addresses, Routes:
\* while a phase runs, nothing is left of what the phases before it in that
\* order have to handle.
C5_PhaseOrder ==
    /\ pc = "new" => pending.del_links = {}
    /\ pc = "addr" => pending.del_links = {} /\ DOMAIN pending.new_links = {}
    /\ pc = "route" => /\ pending.del_links = {}
                       /\ DOMAIN pending.new_links = {}
                       /\ pending.address_changed = {}
    /\ pc = "notify" => /\ pending.del_links = {}
                        /\ DOMAIN pending.new_links = {}
                        /\ pending.address_changed = {}
                        /\ ~pending.routes_changed

\* C5 witness: the route phase is about to run in a batch whose address
\* phase is over
C5_Witness == pc = "route" /\ ip_config_notify # {}

\* C6: once a batch has completed, an ifindex whose most recent link event
\* of that batch was a DelLink is not in devices.
C6_DeletedIsAbsent ==
    BatchCompleted =>
        \A i \in Ifindexes : lastLink[i] = "del" => i \notin DOMAIN devices

\* how often a signal is emitted for an ifindex in one step
C7_Emitted(s, what, i) == Cardinality({ k \in 1..Len(s) : s[k][2] = what /\ s[k][3] = i })

\* what a step after startup emits for the ifindexes that enter or leave devices
C7_Step ==
    served =>
        \A i \in Ifindexes :
            LET added == C7_Emitted(ops', "DeviceAdded", i)
                removed == C7_Emitted(ops', "DeviceRemoved", i)
                enters == i \notin DOMAIN devices /\ i \in DOMAIN devices'
                leaves == i \in DOMAIN devices /\ i \notin DOMAIN devices'
            IN  /\ added = (IF enters THEN 1 ELSE 0)
                /\ removed = (IF leaves THEN 1 ELSE 0)
                /\ added > 0 => ObjectsOf(i) \subseteq objects' /\ i \notin announced
                /\ removed > 0 => i \in announced

\* C7: after startup DeviceAdded is emitted exactly once whenever an ifindex
\* enters devices, with its objects registered, and for no other reason;
\* DeviceRemoved is emitted exactly once whenever an ifindex leaves devices,
\* and only for an ifindex that was announced.
C7_AddedRemovedOnce == [][C7_Step]_vars

\* the names load_initial_state keeps, spelled out
C8_Kept(name) ==
    /\ name # <<>>
    /\ \A pre \in { <<"l", "o">>, <<"d", "o", "c", "k", "e", "r">>, <<"v", "e", "t", "h">>,
                    <<"b", "r", "-">>, <<"v", "i", "r", "b", "r">>, <<"v", "n", "e", "t">>,
                    <<"w", "g">>, <<"t", "u", "n">>, <<"t", "a", "p">>,
                    <<"t", "a", "i", "l", "s", "c", "a", "l", "e">>,
                    <<"p", "o", "d", "m", "a", "n">> } :
          Len(name) < Len(pre) \/ SubSeq(name, 1, Len(pre)) # pre

\* the gateway of the default route of a family through an ifindex in a dump
C8_Gateway(routes, fam, i) ==
    LET hits == { k \in 1..Len(routes) :
                    /\ routes[k].family = fam
                    /\ routes[k].dst_len = 0
                    /\ routes[k].oif = i }
    IN  IF hits = {} THEN None ELSE routes[CHOOSE k \in hits : TRUE].gateway

\* C8: once the bus name is claimed and the monitor can be entered, every
\* link of the initial dump that is kept is in devices with the addresses
\* and gateways of the dumps, its state derived from them, and its objects
\* in the tree, and global_state and connectivity are recomputed.
C8_LoadedBeforeServed ==
    (served \/ pc \in {"idle", "window"}) =>
        /\ served /\ pc \notin {"start", "loaded"}
        /\ \A i \in DOMAIN boot.links :
              C8_Kept(boot.links[i].name) =>
                 /\ i \in DOMAIN devices
                 /\ devices[i].ipv4_addrs = boot.addrs[i].v4
                 /\ devices[i].ipv6_addrs = boot.addrs[i].v6
                 /\ devices[i].gateway4 = C8_Gateway(boot.routes, 4, i)
                 /\ devices[i].gateway6 = C8_Gateway(boot.routes, 6, i)
                 /\ devices[i].nm_state =
                       netlink_flags_to_nm_device(boot.links[i].flags,
                           boot.addrs[i].v4 # <<>>, boot.addrs[i].v6 # <<>>)
                 /\ ObjectsOf(i) \subseteq objects
        /\ global_state = deduce_global_state(devices)
        /\ connectivity = global_state_to_connectivity(global_state)

\* C8 witness: the name is claimed after a dump of two links, one kept with
\* an address and a default gateway, one skipped
C8_Witness ==
    /\ served
    /\ DOMAIN boot.links = {3, 7}
    /\ DOMAIN devices = {3}
    /\ has_ip_address(devices[3])
    /\ has_gateway(devices[3])

\* the cold start of one Ethernet link: ifindex 3, up, running and lower-up,
\* one IPv4 address, an IPv4 default route through it
C9_ColdStart ==
    /\ DOMAIN boot.links = {3}
    /\ boot.links[3] = [index |-> 3, name |-> Eth0,
                        flags |-> IFF_UP + IFF_RUNNING + IFF_LOWER_UP]
    /\ boot.addrs = [ i \in {3} |-> [v4 |-> <<Addr4>>, v6 |-> <<>>] ]
    /\ boot.routes = << Route(4, 0, Gw4, 3) >>

\* C9: once the service is up after that cold start, State is 70,
\* Connectivity is 4, there is one device, its State is 100, its gateway is
\* the gateway of the route, and PrimaryConnection is the ActiveConnection
\* path of ifindex 3.
C9_ColdStartScenario ==
    (served /\ C9_ColdStart) =>
        /\ global_state = 70
        /\ connectivity = 4
        /\ device_paths(devices) = { <<"Devices", 3>> }
        /\ devices[3].nm_state = 100
        /\ devices[3].gateway4 = Gw4
        /\ primary_connection(devices) = { <<"ActiveConnection", 3>> }

\* C9 witness: the service is up after the cold start
C9_Witness == served /\ C9_ColdStart

\* the NewLink message handled by a step of the NewLink loop
C10_Handled == pending.new_links[CHOOSE i \in todo : i \notin todo']

\* a step leaves only kept names in devices, and changes nothing a client
\* sees when it handles a NewLink of a skipped interface that is not in devices
C10_Step ==
    /\ \A i \in DOMAIN devices' : C8_Kept(devices'[i].name)
    /\ (pc = "new" /\ ~C8_Kept(C10_Handled.name)
            /\ C10_Handled.index \notin DOMAIN devices) =>
          /\ objects' = objects
          /\ \A k \in 1..Len(ops') : ops'[k][2] # "DeviceAdded"
          /\ device_paths(devices') = device_paths(devices)

\* C10: no device in devices has a name with an ignored prefix or no name,
\* and handling a NewLink that carries such a name for an ifindex that is not
\* in devices registers no object, emits no DeviceAdded and leaves the device
\* list unchanged.
C10_IgnoredNeverEnters == [][C10_Step]_vars

\* C10 witness: the NewLink loop has handled a docker0 message for an ifindex
\* that is not in devices, and goes on with another message
C10_Witness ==
    /\ pc = "new"
    /\ todo # {}
    /\ \E i \in DOMAIN pending.new_links \ todo :
          /\ pending.new_links[i].name = Docker0
          /\ i \notin DOMAIN devices

\* how often a step emits a signal for an ifindex
SignalCount(s, what, i) ==
    Cardinality({ k \in 1..Len(s) : s[k][1] = "signal" /\ s[k][2] = what /\ s[k][3] = i })

\* the address phase queues the ifindexes of the address events, the route
\* phase every device, the link loops nothing; the closing loop notifies each
\* queued ifindex once on IP4Config and once on IP6Config, and no other step
\* emits an IP-config notification
C11_Step ==
    /\ pc = "addr" => ip_config_notify' = ip_config_notify \cup pending.address_changed
    /\ pc = "route" => ip_config_notify' = ip_config_notify \cup DOMAIN devices'
    /\ pc \in {"del", "new"} => ip_config_notify' = ip_config_notify
    /\ \A i \in Ifindexes :
          LET expected == IF pc = "notify" /\ i \in ip_config_notify THEN 1 ELSE 0
          IN  /\ SignalCount(ops', "IP4Config.PropertiesChanged", i) = expected
              /\ SignalCount(ops', "IP6Config.PropertiesChanged", i) = expected

\* C11: in every batch the IP-config notification is emitted exactly once
\* per queued ifindex, whether the address phase, the route phase or both
\* queued it and however many address events the batch held for it.
C11_IpConfigOnce == [][C11_Step]_vars

\* C11 witness: a batch has ended with one IP-config notification for
\* ifindex 7, which only the address phase can queue as it is no device, and
\* one for the device 3
C11_Witness ==
    /\ pc = "idle"
    /\ DOMAIN devices = {3}
    /\ SignalCount(ops, "IP4Config.PropertiesChanged", 3) = 1
    /\ SignalCount(ops, "IP4Config.PropertiesChanged", 7) = 1
    /\ SignalCount(ops, "IP6Config.PropertiesChanged", 7) = 1

\* the step is the address phase or the closing loop of the batch of a burst
\* of MaxBurst address messages for the device
BurstBatch(phase) ==
    /\ pc = phase
    /\ naddr = MaxBurst
    /\ BurstIfindex \in DOMAIN devices

\* the dump of the step failed
DumpFailed(s, i) ==
    \E k \in 1..Len(s) : s[k][1] = "error" /\ s[k][2] = "addresses" /\ s[k][3] = i

\* what the batch of the burst does whatever the device's state: one IP4Config
\* PropertiesChanged, emitted by the closing loop, and the stored lists are the
\* kernel's lists when the dump succeeds and a part of them when it fails
C12_Coalesced ==
    /\ BurstBatch("addr") =>
          /\ pc' = "notify"
          /\ SignalCount(ops', "IP4Config.PropertiesChanged", BurstIfindex) = 0
          /\ LET stored == [v4 |-> devices'[BurstIfindex].ipv4_addrs,
                            v6 |-> devices'[BurstIfindex].ipv6_addrs]
             IN  IF DumpFailed(ops', BurstIfindex)
                    THEN PartOf(stored, kernel)
                    ELSE stored = kernel
    /\ BurstBatch("notify") =>
          /\ pc' = "idle"
          /\ SignalCount(ops', "IP4Config.PropertiesChanged", BurstIfindex) = 1
          /\ SignalCount(ops', "Device.PropertiesChanged", BurstIfindex) = 0
          /\ devices' = devices

\* Device PropertiesChanged is emitted once when the address phase changes
\* nm_state of the device and not at all when it does not
C12_AmendedStep ==
    /\ C12_Coalesced
    /\ BurstBatch("addr") =>
          SignalCount(ops', "Device.PropertiesChanged", BurstIfindex) =
              IF devices'[BurstIfindex].nm_state # devices[BurstIfindex].nm_state
                 THEN 1 ELSE 0

C12_OriginalStep ==
    /\ C12_Coalesced
    /\ BurstBatch("addr") =>
          SignalCount(ops', "Device.PropertiesChanged", BurstIfindex) = 1

C13_DownedHasNoGateway ==
    pc = "notify" =>
        \A i \in downed \cap DOMAIN devices :
            /\ devices[i].nm_state \in {DEV_DISCONNECTED, DEV_UNAVAILABLE}
            /\ devices[i].gateway4 = None
            /\ devices[i].gateway6 = None

\* the NewLink loop is about to handle the unplugging of device i, which is
\* Activated and holds an IPv4 gateway
Unplugging(i) ==
    /\ pc = "new"
    /\ i \in todo
    /\ i \in DOMAIN devices
    /\ devices[i].nm_state = DEV_ACTIVATED
    /\ devices[i].gateway4 # None

\* what the NewLink loop does to the unplugged device and to the Manager
C14_StateStep ==
    \A i \in Ifindexes : Unplugging(i) =>
        /\ devices'[i].nm_state = DEV_UNAVAILABLE
        /\ devices'[i].gateway4 = None
        /\ SignalCount(ops', "Device.StateChanged", i) = 1
        /\ \E k \in 1..Len(ops') :
              ops'[k] = Op("signal", "Device.StateChanged", i, DEV_UNAVAILABLE, DEV_ACTIVATED)
        /\ DOMAIN devices = {i} =>
              /\ global_state = NM_STATE_CONNECTED_GLOBAL
              /\ global_state' = IF has_ip_address(devices'[i])
                                    THEN NM_STATE_CONNECTED_LOCAL
                                    ELSE NM_STATE_DISCONNECTED
        /\ downed' = {i}

\* the closing loop of the batch notifies the IP4Config object of the device
C14_NotifyStep ==
    \A i \in Ifindexes :
        (pc = "notify" /\ downed = {i}) =>
            SignalCount(ops', "IP4Config.PropertiesChanged", i) = 1

C14_Step == C14_StateStep /\ C14_NotifyStep

\* C14: when the cable of an Activated device with a gateway is unplugged
\* and the batch holds only that NewLink, the device goes from 100 to 20,
\* Device.StateChanged(20, 100, 0) is emitted once, gateway4 is cleared, the
\* Manager goes from 70 to 50 if an address remains and to 20 otherwise, and
\* PropertiesChanged is emitted on the IP4Config object of the device.
C14_CableUnplug == [][C14_Step]_vars

\* the step emits a state notification of the Device or of its ActiveConnection
StateSignals(s, i) ==
    { k \in 1..Len(s) :
        /\ s[k][3] = i
        /\ s[k][2] \in {"Device.PropertiesChanged", "Device.StateChanged",
                        "ActiveConnection.PropertiesChanged",
                        "ActiveConnection.StateChanged"} }

\* nm_state after an address change of a device that was in state old
AfterIpChange(old, dev) ==
    IF old < DEV_IP_CONFIG THEN old
    ELSE IF has_ip_address(dev) THEN DEV_ACTIVATED ELSE DEV_IP_CONFIG

\* the address phase and the initial load, for every device whose addresses
\* they read: below IpConfig nm_state stays and nothing is signalled, at
\* IpConfig or above nm_state follows the addresses
C15_Step ==
    /\ pc = "addr" =>
          \A i \in pending.address_changed \cap DOMAIN devices :
              /\ i \in DOMAIN devices'
              /\ devices'[i].nm_state = AfterIpChange(devices[i].nm_state, devices'[i])
              /\ devices[i].nm_state < DEV_IP_CONFIG => StateSignals(ops', i) = {}
    /\ (pc = "start" /\ pc' = "loaded") =>
          /\ \A i \in DOMAIN devices' :
                devices'[i].nm_state =
                    AfterIpChange(netlink_flags_to_nm_device(boot'.links[i].flags, FALSE, FALSE),
                                  devices'[i])
          /\ \A i \in Ifindexes : StateSignals(ops', i) = {}

\* C15: an address change never raises a device out of Disconnected or
\* Unavailable: in the address phase and in the initial load a device below
\* IpConfig keeps its nm_state and produces no state-change signal whatever
\* addresses it gains or loses, and a device at IpConfig or above is Activated
\* if and only if it has an address, IpConfig otherwise.
C15_IpNeverRaises == [][C15_Step]_vars

\* C15 witness: the address phase has just given an address to a device that
\* is Unavailable, and the device is still Unavailable
C15_Witness ==
    /\ pc = "notify"
    /\ 3 \in ip_config_notify
    /\ 3 \in DOMAIN devices
    /\ devices[3].nm_state = DEV_UNAVAILABLE
    /\ devices[3].ipv4_addrs = <<Addr4>>
    /\ \E k \in 1..Len(ops) : ops[k] = Op("write", "addresses", 3, 0, 0)

\* the route phase emits one Manager PropertiesChanged and one Manager
\* StateChanged and leaves every device in the queue of the closing loop
C16_Step ==
    pc = "route" =>
        /\ SignalCount(ops', "Manager.PropertiesChanged", 0) = 1
        /\ SignalCount(ops', "Manager.StateChanged", 0) = 1
        /\ \E k \in 1..Len(ops') :
              ops'[k] = Op("signal", "Manager.StateChanged", 0, global_state', 0)
        /\ DOMAIN devices' \subseteq ip_config_notify'
        /\ DOMAIN devices' = DOMAIN devices

\* C16: every batch with routes_changed emits the Manager global-state
\* notification, PropertiesChanged and StateChanged, even when global_state
\* did not change, and queues an IP-config notification for every ifindex
\* present in devices at that time.
C16_RoutesNotifyAll == [][C16_Step]_vars

\* C16 witness: the first batch held one route message; the devices have no
\* address, so global_state is Disconnected as it was after the load, and
\* the route phase has emitted StateChanged(20) and queued both devices
C16_Witness ==
    /\ pc = "notify"
    /\ nmsgs = 1
    /\ DOMAIN devices = {3, 7}
    /\ \A i \in DOMAIN devices : ~has_ip_address(devices[i])
    /\ global_state = NM_STATE_DISCONNECTED
    /\ ip_config_notify = {3, 7}
    /\ SignalCount(ops, "Manager.PropertiesChanged", 0) = 1
    /\ \E k \in 1..Len(ops) :
          ops[k] = Op("signal", "Manager.StateChanged", 0, NM_STATE_DISCONNECTED, 0)

\* the position of the first entry of a step with this kind and name, 0 if none
FirstOp(s, kind, what) ==
    IF \E k \in 1..Len(s) : s[k][1] = kind /\ s[k][2] = what
        THEN CHOOSE k \in 1..Len(s) :
                /\ s[k][1] = kind /\ s[k][2] = what
                /\ \A j \in 1..(k - 1) : ~(s[j][1] = kind /\ s[j][2] = what)
        ELSE 0

\* handle_del_link for the DelLink of ifindex i
C17_Handled(i) ==
    IF i \notin DOMAIN devices
        THEN /\ ops' = <<>>
             /\ UNCHANGED << devices, global_state, connectivity, objects >>
        ELSE /\ objects' \cap ObjectsOf(i) = {}
             /\ objects' \ ObjectsOf(i) = objects \ ObjectsOf(i)
             /\ devices' = MapRemove(devices, i)
             /\ global_state' = deduce_global_state(devices')
             /\ connectivity' = global_state_to_connectivity(global_state')
             /\ SignalCount(ops', "DeviceRemoved", i) = 1
             /\ FirstOp(ops', "write", "devices") > 0
             /\ FirstOp(ops', "write", "devices") < FirstOp(ops', "signal", "DeviceRemoved")
             /\ SignalCount(ops', "Manager.PropertiesChanged", 0) =
                    (IF global_state' # global_state THEN 1 ELSE 0)
             /\ SignalCount(ops', "Manager.StateChanged", 0) =
                    (IF global_state' # global_state THEN 1 ELSE 0)

C17_Step ==
    pc = "del" => \A i \in todo : todo' = todo \ {i} => C17_Handled(i)

\* C17: a DelLink for an ifindex that is not in devices changes no state and
\* emits no signal; a DelLink for an ifindex in devices unregisters its
\* objects, removes it from devices, recomputes global_state and connectivity
\* from the remaining devices, emits DeviceRemoved after the removal, and
\* emits the Manager notification if and only if global_state changed.
C17_DelLink == [][C17_Step]_vars

\* the route dump of the step failed
RouteDumpFailed(s) ==
    \E k \in 1..Len(s) : s[k][1] = "error" /\ s[k][2] = "routes"

\* a step of a batch whose address dump for a device fails leaves the address
\* lists of the device alone, and one whose route dump fails leaves the
\* gateways of every device alone
C18_Step ==
    pc \in {"new", "addr", "route"} =>
        /\ \A i \in DOMAIN devices :
              (DumpFailed(ops', i) /\ i \in DOMAIN devices') =>
                  /\ devices'[i].ipv4_addrs = devices[i].ipv4_addrs
                  /\ devices'[i].ipv6_addrs = devices[i].ipv6_addrs
        /\ RouteDumpFailed(ops') =>
              \A i \in DOMAIN devices \cap DOMAIN devices' :
                  /\ devices'[i].gateway4 = devices[i].gateway4
                  /\ devices'[i].gateway6 = devices[i].gateway6

\* C18: when a kernel address or gateway query fails during a batch, the
\* affected device keeps the address lists and gateways it had before the
\* query; a failed query never replaces them with an empty or partial result.
C18_FailedQueryKeeps == [][C18_Step]_vars

\* the step is a call of one of the four methods that returns Failed
FailedCall ==
    /\ pc = "idle"
    /\ Len(ops') > 0
    /\ ops'[1][1] = "call"
    /\ ops'[1][2] \in {"ActivateConnection", "AddAndActivateConnection",
                       "DeactivateConnection", "Disconnect"}
    /\ reply'[1] = "Failed"

C19_Step ==
    FailedCall =>
        UNCHANGED << devices, global_state, connectivity, user_disconnect_pending >>

\* C19: when link_set_up or link_set_down fails inside ActivateConnection,
\* AddAndActivateConnection, DeactivateConnection or Device.Disconnect, the
\* call returns the D-Bus error Failed and the AppState (devices,
\* global_state, connectivity, user_disconnect_pending) is what it was before
\* the call.
C19_FailedCallKeepsState == [][C19_Step]_vars

\* how often a step hands a signal to the bus connection, sent or not
AttemptCount(s, what, i) ==
    Cardinality({ k \in 1..Len(s) :
        s[k][1] \in {"signal", "lost"} /\ s[k][2] = what /\ s[k][3] = i })

\* the position of a phase in process_batch, "idle" being the return
PhaseIndex(p) ==
    IF p = "idle" THEN Len(PhaseOrder) + 1
    ELSE CHOOSE j \in 1..Len(PhaseOrder) : PhaseOrder[j] = p

\* the step moves on inside the batch: a link loop handles one more message,
\* or process_batch enters the next phase that has work, skipping none
C20_Progress ==
    IF pc' = pc
        THEN pc \in {"del", "new"} /\ todo' # todo /\ todo' \subseteq todo /\ todo' # {}
        ELSE /\ pc' \in {"new", "addr", "route", "notify", "idle"}
             /\ PhaseIndex(pc') > PhaseIndex(pc)
             /\ \A j \in (PhaseIndex(pc) + 1)..(PhaseIndex(pc') - 1) :
                    ~HasWork(PhaseOrder[j], pending')
             /\ pc' # "idle" => HasWork(pc', pending')

\* the notifications of the step are handed to the connection and the store
\* is written as with a working bus
C20_Effects ==
    /\ pc = "del" =>
          \A i \in todo \ todo' :
              /\ i \notin DOMAIN devices'
              /\ i \in DOMAIN devices => AttemptCount(ops', "DeviceRemoved", i) = 1
    /\ pc = "new" =>
          \A i \in (todo \ todo') \cap DOMAIN devices :
              /\ devices'[i] = update_state_on_link_change(devices[i], pending.new_links[i].flags)
              /\ AttemptCount(ops', "Device.PropertiesChanged", i) =
                     (IF devices'[i].nm_state # devices[i].nm_state THEN 1 ELSE 0)
    /\ pc = "addr" =>
          /\ global_state' = deduce_global_state(devices')
          /\ ip_config_notify' = ip_config_notify \cup pending.address_changed
          /\ \A i \in DOMAIN devices :
                AttemptCount(ops', "Device.PropertiesChanged", i) =
                    (IF devices'[i].nm_state # devices[i].nm_state THEN 1 ELSE 0)
          /\ AttemptCount(ops', "Manager.PropertiesChanged", 0) =
                    (IF global_state' # global_state THEN 1 ELSE 0)
    /\ pc = "route" =>
          /\ global_state' = deduce_global_state(devices')
          /\ ip_config_notify' = ip_config_notify \cup DOMAIN devices'
          /\ AttemptCount(ops', "Manager.PropertiesChanged", 0) = 1
          /\ AttemptCount(ops', "Manager.StateChanged", 0) = 1
    /\ pc = "notify" =>
          /\ UNCHANGED << devices, global_state, connectivity, objects >>
          /\ \A i \in Ifindexes :
                AttemptCount(ops', "IP4Config.PropertiesChanged", i) =
                    (IF i \in ip_config_notify THEN 1 ELSE 0)

\* a step of a batch in which an emission fails or finds no object
C20_Step ==
    (/\ pc \in {"del", "new", "addr", "route", "notify"}
     /\ bus_ok' = bus_ok)
        => C20_Progress /\ C20_Effects

\* C20: a failed signal emission, by a send error of the bus or by a target
\* object that is not registered, never fails the batch: the store is written
\* as without the failure, the remaining phases and notifications of the batch
\* still run, and the monitor returns to wait for the next batch.
C20_EmissionNeverFailsBatch == [][C20_Step]_vars

\* C20 witness: the first and the second batch have both lost emissions, and
\* the monitor is back in watch_netlink with nothing pending
C20_Witness ==
    /\ pc = "idle"
    /\ ~bus_ok
    /\ lost = {1, 2}
    /\ is_empty(pending)
    /\ OpsOfKind(ops, "lost") # {}

\* the step has run reload_nameservers
Reloaded(s) == \E k \in 1..Len(s) : s[k][1] = "read" /\ s[k][2] = "resolv.conf"

\* the files of resolv, in the order they are tried, that hold a server
WithServers == { k \in 1..Len(resolv) : has_servers(resolv[k]) }

C21_Step ==
    Reloaded(ops') =>
        /\ WithServers # {} =>
              LET first == CHOOSE k \in WithServers : \A j \in WithServers : k <= j
              IN  nameservers' = servers_of(resolv[first].lines)
        /\ (\A k \in 1..Len(resolv) : ~resolv[k].readable) => nameservers' = <<>>

\* C21: a nameserver reload sets AppState.nameservers to the servers of the
\* first of the two resolv.conf files that holds at least one nameserver line,
\* and leaves it empty when neither file can be read.
C21_NameserverReload == [][C21_Step]_vars

\* a start-up step that failed: the initial load (socket or dump), the bus
\* service, or the start of the monitor
StartupFailed ==
    /\ pc \in {"start", "loaded", "monitor"}
    /\ \E k \in 1..Len(ops') : ops'[k][1] = "error"

Ended(s) == \E k \in 1..Len(s) : s[k][1] = "shutdown"

C22_Step ==
    /\ StartupFailed => pc' = "exit1"
    /\ (pc # "exit0" /\ pc' = "exit0") => Ended(ops')

\* C22: every start-up failure (the initial-load socket or dump, the bus name,
\* the monitor's multicast socket being opened or bound) ends the process with
\* exit code 1, and exit code 0 is reached only by a shutdown
C22_StartupFailuresFatal == [][C22_Step]_vars

Gateways(dev) == << dev.gateway4, dev.gateway6 >>

\* the kernel's default routes of device i are what the table held before the
\* route phase: the completed reload gives the device the gateways it had
RouteUnchanged(i) ==
    /\ ~loading.failed
    /\ i \in DOMAIN loading.before
    /\ Gateways(reload_gateways(loading.before, loading.dump)[i]) = Gateways(loading.before[i])

\* C24: a reader that takes the read lock during the route phase of a batch
\* sees, for every device whose kernel default route did not change, the
\* gateways the device had before the phase (never the zeroed ones)
C24_NoPartialPhase ==
    observed.during =>
        \A i \in DOMAIN observed.devices :
            RouteUnchanged(i) => Gateways(observed.devices[i]) = Gateways(loading.before[i])

\* the ifindex a trailing segment denotes, written out for the segments of
\* the calls: 0 for the segments that are not integers
SegmentValue(seg) ==
    CASE seg = <<"3">> -> 3
      [] seg = <<"0", "7">> -> 7
      [] seg = <<"5">> -> 5
      [] OTHER -> 0

KernelCommands(s) == { k \in 1..Len(s) : s[k][1] \in {"kernel", "error"} }

Activated == Len(ops') > 0 /\ ops'[1][1] = "call" /\ ops'[1][2] = "ActivateConnection"

C25_Step ==
    Activated =>
        LET path == IF args'.device = Root THEN args'.connection ELSE args'.device
            ifindex == SegmentValue(path.last)
        IN  IF ifindex = 0 \/ ifindex \notin DOMAIN devices
               THEN /\ reply' = << "UnknownObject", 0 >>
                    /\ KernelCommands(ops') = {}
               ELSE /\ Cardinality(KernelCommands(ops')) = 1
                    /\ \A k \in KernelCommands(ops') :
                          ops'[k][2] = "link_set_up" /\ ops'[k][3] = ifindex
                    /\ (\E k \in KernelCommands(ops') : ops'[k][1] = "kernel")
                          => reply' = << "Ok", ifindex >>

\* C25: ActivateConnection takes the ifindex from the trailing segment of
\* conn when device is "/" and of device otherwise; a segment that is not an
\* integer, or an ifindex no device has, gives UnknownObject and no kernel
\* command; otherwise link_set_up is issued for exactly that ifindex and, when
\* it succeeds, the call returns the ActiveConnection path of that ifindex
C25_ActivateConnection == [][C25_Step]_vars

\* ActivateConnection was called with device "/" and a connection path whose
\* last segment is 07: eth1's link was set up and its ActiveConnection returned
C25_Witness ==
    /\ args.device = Root
    /\ args.connection.last = <<"0", "7">>
    /\ reply = << "Ok", 7 >>
    /\ Len(ops) = 2
    /\ ops[1][2] = "ActivateConnection"
    /\ ops[2] = Op("kernel", "link_set_up", 7, 0, 0)

\* C26: once the first message of a batch has been read, the window closes
\* and the batch is applied, whatever messages keep arriving
C26_WindowCloses == (pc = "window") ~> (pc = "addr")

\* bit b of the flags, by remainder
FlagSet(b) == (input.flags % (b + b)) >= b

\* C27: netlink_flags_to_nm_device returns 30 when IFF_UP is clear; else 20
\* when IFF_DORMANT is set; else 20 without carrier (IFF_RUNNING or
\* IFF_LOWER_UP), 70 with carrier and no address, 100 with carrier and an
\* address of either family
C27_FlagsMapping ==
    output.fn = "netlink_flags_to_nm_device" =>
        output.value =
            IF ~FlagSet(IFF_UP) THEN 30
            ELSE IF FlagSet(IFF_DORMANT) THEN 20
            ELSE IF ~(FlagSet(IFF_RUNNING) \/ FlagSet(IFF_LOWER_UP)) THEN 20
            ELSE IF ~(input.has_ipv4 \/ input.has_ipv6) THEN 70
            ELSE 100

\* an interface that is up and dormant, with carrier and an IPv4 address, was
\* mapped to Unavailable
C27_Witness ==
    /\ output.fn = "netlink_flags_to_nm_device"
    /\ FlagSet(IFF_UP) /\ FlagSet(IFF_DORMANT) /\ FlagSet(IFF_LOWER_UP)
    /\ input.has_ipv4
    /\ output.value = 20

HasIp(dev) == Len(dev.ipv4_addrs) + Len(dev.ipv6_addrs) > 0
HasAnyGateway(dev) == ~(dev.gateway4 = None /\ dev.gateway6 = None)

\* C28: deduce_global_state returns 70 when some device has an address and a
\* gateway, else 50 when some device has an address, else 20; and
\* global_state_to_connectivity maps 50..70 to 4, 20 to 1 and any other value
\* to 0
C28_GlobalMapping ==
    /\ output.fn = "deduce_global_state" =>
          LET t == input.devices
          IN  output.value =
                IF \E i \in DOMAIN t : HasIp(t[i]) /\ HasAnyGateway(t[i]) THEN 70
                ELSE IF \E i \in DOMAIN t : HasIp(t[i]) THEN 50
                ELSE 20
    /\ output.fn = "global_state_to_connectivity" =>
          output.value =
                IF input.global_state \in 50..70 THEN 4
                ELSE IF input.global_state = 20 THEN 1
                ELSE 0

\* a table in which one device has an address and no gateway and the other a
\* gateway and no address gave ConnectedLocal
C28_Witness ==
    /\ output.fn = "deduce_global_state"
    /\ DOMAIN input.devices = Ifindexes
    /\ \E i, j \in Ifindexes :
          /\ HasIp(input.devices[i]) /\ ~HasAnyGateway(input.devices[i])
          /\ ~HasIp(input.devices[j]) /\ HasAnyGateway(input.devices[j])
    /\ output.value = 50

\* C29: in every state of the served daemon and for every device of the
\* table, Connection.Active.State is 2 iff Device.ActiveConnection is the
\* device's ActiveConnection path (not "/") iff Manager.ActiveConnections
\* lists that path iff nm_state >= 100; otherwise Connection.Active.State is 4
C29_ProjectionsAgree ==
    served =>
        \A i \in DOMAIN devices :
            LET state_activated == active_connection_state(devices, i) = 2
                device_points == /\ device_active_connection(devices, i) = active_connection_path(i)
                                 /\ device_active_connection(devices, i) # root_path
                listed == active_connection_path(i) \in active_connection_paths(devices)
                activated == devices[i].nm_state >= 100
            IN  /\ state_activated <=> device_points
                /\ device_points <=> listed
                /\ listed <=> activated
                /\ ~state_activated => active_connection_state(devices, i) = 4

\* the served table holds an activated device and one that is not
C29_Witness ==
    /\ served
    /\ \E i, j \in DOMAIN devices :
          /\ devices[i].nm_state = DEV_ACTIVATED
          /\ device_active_connection(devices, i) = active_connection_path(i)
          /\ devices[j].nm_state = DEV_IP_CONFIG
          /\ device_active_connection(devices, j) = root_path

\* C30: while the D-Bus service is reachable, global_state is 20, 50 or 70,
\* connectivity is 1 or 4, and every device of the table has nm_state 20, 30,
\* 70 or 100 (never 0)
C30_ServedStateDomains ==
    served =>
        /\ global_state \in {20, 50, 70}
        /\ connectivity \in {1, 4}
        /\ \A i \in DOMAIN devices : devices[i].nm_state \in {20, 30, 70, 100}

\* the served daemon has gone through a batch that left it ConnectedGlobal
\* with an activated device
C30_Witness ==
    /\ served
    /\ BatchCompleted
    /\ global_state = 70
    /\ connectivity = 4
    /\ \E i \in DOMAIN devices : devices[i].nm_state = 100

\* the device of ifindex i changes its nm_state in this step
Transition(i) ==
    /\ i \in DOMAIN devices
    /\ i \in DOMAIN devices'
    /\ devices[i].nm_state # devices'[i].nm_state

\* exactly one of the two states is Activated or above
Crosses(old, new) == (old >= 100) # (new >= 100)

C31_Step ==
    \A i \in Ifindexes :
        /\ Transition(i) =>
              LET old == devices[i].nm_state
                  new == devices'[i].nm_state
                  ac == IF new >= 100 THEN 2 ELSE 4
              IN  /\ SignalCount(ops', "Device.PropertiesChanged", i) = 1
                  /\ \E k \in 1..Len(ops') :
                        ops'[k] = Op("signal", "Device.PropertiesChanged", i, new, 0)
                  /\ SignalCount(ops', "Device.StateChanged", i) = 1
                  /\ \E k \in 1..Len(ops') :
                        ops'[k] = Op("signal", "Device.StateChanged", i, new, old)
                  /\ SignalCount(ops', "ActiveConnection.PropertiesChanged", i) = 1
                  /\ \E k \in 1..Len(ops') :
                        ops'[k] = Op("signal", "ActiveConnection.PropertiesChanged", i, ac, 0)
                  /\ SignalCount(ops', "ActiveConnection.StateChanged", i)
                        = IF Crosses(old, new) THEN 1 ELSE 0
                  /\ Crosses(old, new) =>
                        \E k \in 1..Len(ops') :
                            ops'[k] = Op("signal", "ActiveConnection.StateChanged", i, ac, 0)
        /\ SignalCount(ops', "ActiveConnection.StateChanged", i) > 0 =>
              Transition(i) /\ Crosses(devices[i].nm_state, devices'[i].nm_state)

\* C31: ActiveConnection.StateChanged(ac_state, 0) is emitted for a device
\* state transition if and only if exactly one of the old and new state is
\* Activated or above; every transition emits PropertiesChanged {State} on the
\* ActiveConnection object and PropertiesChanged {State, StateReason,
\* ActiveConnection} plus StateChanged(new, old, 0) on the Device object
C31_StateSignals == [][C31_Step]_vars

\* C32: no step of a batch or of a method handler holds the AppState write
\* guard while a kernel query is sent or awaited, and every write into
\* AppState happens under a guard, which is therefore acquired after the
\* query step before it returned
C32_NoWriterAcrossQuery ==
    /\ NextIs({"send", "await"}) => ~task.guard
    /\ NextIs({"write"}) => task.guard

\* load_default_gateways has written a default route and dropped its guard,
\* and awaits the next message of the dump
C32_Witness ==
    /\ NextIs({"await"})
    /\ Head(task.prog).what = "routes"
    /\ task.last = Ins("release", "write")
    /\ ~task.guard


\* the step is taken by the handler of a method call or of a property read
HandlerStep == (Len(ops') > 0 /\ ops'[1][1] = "call") \/ call' # call

\* the phases of process_batch that write the table
BatchPhases == { "del", "new", "addr", "route" }

C33_Step ==
    /\ HandlerStep =>
          /\ UNCHANGED << devices, global_state, connectivity, nameservers >>
          /\ user_disconnect_pending' # user_disconnect_pending =>
                /\ call.method = "DeactivateConnection"
                /\ user_disconnect_pending' = user_disconnect_pending \cup {call.ifindex}
    /\ (served /\ << devices, global_state, connectivity >>' # << devices, global_state, connectivity >>)
          => pc \in BatchPhases
    /\ user_disconnect_pending' # user_disconnect_pending => HandlerStep

\* C33: once the bus is served, only the monitor and DeactivateConnection
\* write AppState: a step of a property read or of any other method handler
\* (GetDevices, GetDeviceByIpIface, ActivateConnection,
\* AddAndActivateConnection, Device.Disconnect, the Settings methods) leaves
\* AppState as it is, DeactivateConnection changes user_disconnect_pending
\* and nothing else, and devices, global_state and connectivity change only
\* in a step of a monitor batch.
C33_OnlyMonitorWrites == [][C33_Step]_vars

\* DeactivateConnection has marked a device while a batch is being applied
C33_Witness ==
    /\ pc \in BatchPhases
    /\ call.method = "DeactivateConnection"
    /\ call.at = "handle"
    /\ call.ifindex \in user_disconnect_pending


\* the ifindexes of the link_set commands a step sends to the kernel
LinkSetTargets(s) ==
    { s[k][3] : k \in { j \in 1..Len(s) : s[j][2] \in {"link_set_up", "link_set_down"} } }

C38_Step == call' # call \/ (Len(ops') > 0 /\ ops'[1][1] = "call") =>
                LinkSetTargets(ops') \subseteq DOMAIN devices

\* C38: a link_set_up or link_set_down command issued by the handler of a
\* client's method call targets an ifindex that is in AppState.devices at the
\* moment the command is issued, whatever batch steps of the monitor run
\* between the handler's existence check and the command.
C38_LinkSetTargetsDevice == [][C38_Step]_vars


\* the batch message k was put in is not before the batch of an earlier message
InArrivalOrder(taken) ==
    \A j, k \in 1..Len(taken) : j < k => taken[j] <= taken[k]

C34_Step ==
    /\ stream'.taken # stream.taken =>
          /\ pc \in {"idle", "window"}
          /\ pc' = "window"
          /\ Len(stream'.taken) = Len(stream.taken) + 1
          /\ stream'.taken[Len(stream'.taken)] = nmsgs'
          /\ pc = "idle" => /\ pending = EmptyPending
                            /\ \A k \in 1..Len(stream.taken) : stream.taken[k] < nmsgs'
    /\ ready' < ready => stream'.taken # stream.taken
    /\ pending' # pending /\ pc \notin {"idle", "window"} => stream'.taken = stream.taken
    /\ Len(stream'.taken) + ready' = stream'.arrived
    /\ InArrivalOrder(stream'.taken)

\* C34: batches are applied one at a time in the arrival order of their
\* messages: a message is read from the stream only while the monitor is idle
\* or in a window, so the phases of batch n are over before a message of
\* batch n + 1 is read; every message emitted is either still waiting in the
\* stream or has been put into exactly one batch, and a message that arrives
\* while a batch is processed goes to a later batch.
C34_BatchesInOrder == [][C34_Step]_vars

\* a message that arrived while the first batch was processed has been put
\* into the second batch
C34_Witness ==
    /\ nmsgs = 2
    /\ pc = "addr"
    /\ Len(stream.taken) >= 2
    /\ stream.taken[1] = 1
    /\ stream.taken[Len(stream.taken)] = 2
    /\ ready > 0


\* the ifindexes a step sends an IP4Config or IP6Config PropertiesChanged for
IpConfigTargets(s) ==
    { s[k][3] : k \in { j \in 1..Len(s) :
        /\ s[j][1] \in {"signal", "lost"}
        /\ s[j][2] \in {"IP4Config.PropertiesChanged", "IP6Config.PropertiesChanged"} } }

C35_Step == IpConfigTargets(ops') \subseteq DOMAIN devices

\* C35: an IP-config PropertiesChanged is emitted only for an ifindex that is
\* in AppState.devices when it is emitted: an address event of an interface
\* that is ignored or unknown, or of a device deleted in the same batch,
\* produces no PropertiesChanged on an IP4Config or IP6Config path.
C35_IpConfigOnlyForDevices == [][C35_Step]_vars


C36_Step ==
    (pc = "notify" /\ pc' = "idle" /\ global_state' = NM_STATE_CONNECTED_GLOBAL) =>
        /\ \E i \in DOMAIN devices' :
              devices'[i].nm_state >= DEV_ACTIVATED /\ has_gateway(devices'[i])
        /\ primary_connection(devices') # {root_path}

\* C36: after every completed batch, if Manager.State is ConnectedGlobal (70)
\* then Manager.PrimaryConnection is not "/": some device has nm_state at
\* least Activated and a gateway.
C36_GlobalHasPrimary == [][C36_Step]_vars


\* the Device.StateChanged signals of device i in s, as pairs of new and old
StateChangedOf(s, i) ==
    { << s[k][4], s[k][5] >> : k \in { j \in 1..Len(s) :
        s[j][1] \in {"signal", "lost"} /\ s[j][2] = "Device.StateChanged" /\ s[j][3] = i } }

C37_Step ==
    \A i \in Ifindexes :
        /\ \A s \in StateChangedOf(ops', i) :
              /\ s[1] # s[2]
              /\ i \in DOMAIN devices /\ s[2] = devices[i].nm_state
              /\ i \in DOMAIN devices' /\ s[1] = devices'[i].nm_state
        /\ AttemptCount(ops', "Device.StateChanged", i) <= 1
        /\ (Transition(i) /\ has_interface("Device", i)) =>
              StateChangedOf(ops', i) = { << devices'[i].nm_state, devices[i].nm_state >> }

\* C37: the Device.StateChanged(new, old, 0) signals of a device form a
\* chain.  Every signal has new different from old, its old is the nm_state
\* stored before the step and its new the nm_state stored after it, and no
\* stored nm_state of a device with a registered Device object changes
\* without its signal: so the old of each signal is the new of the signal
\* before it, or the state the device was registered with.
C37_StateChangedChain == [][C37_Step]_vars

\* a device with a registered Device object is announced as Activated from
\* IpConfig by the address phase of a batch that also carried a link message
\* of the device
C37_Witness ==
    /\ pc \in {"route", "notify"}
    /\ \E i \in DOMAIN devices :
          /\ has_interface("Device", i)
          /\ lastLink[i] = "new"
          /\ devices[i].nm_state = DEV_ACTIVATED
          /\ StateChangedOf(ops, i) = { << DEV_ACTIVATED, DEV_IP_CONFIG >> }


\* the address lists AppState holds for the device
StoredAddrs ==
    [v4 |-> devices[BurstIfindex].ipv4_addrs, v6 |-> devices[BurstIfindex].ipv6_addrs]

\* the kernel has changed the addresses of the device since AppState read them
Stale == BurstIfindex \in DOMAIN devices /\ StoredAddrs # kernel

\* C39: no kernel event is lost between the initial dump and the start of the
\* multicast subscription: every change the kernel makes after the initial
\* dump, also one made before the monitor's socket is bound, is eventually
\* reflected in AppState by some batch.
C39_NoEventLost == Stale ~> ~Stale


\* the Manager PropertiesChanged a step sends, as pairs of State and Connectivity
ManagerChanged(s) ==
    { << s[k][4], s[k][5] >> : k \in { j \in 1..Len(s) :
        s[j][1] \in {"signal", "lost"} /\ s[j][2] = "Manager.PropertiesChanged" } }

C40_Step ==
    \A m \in ManagerChanged(ops') :
        /\ m[1] = global_state'
        /\ m[2] = connectivity'
        /\ m[2] = global_state_to_connectivity(m[1])
        /\ changed_active_connections(devices') = active_connection_paths(devices')
        /\ changed_primary_connection(devices') = primary_connection(devices')

\* C40: every Manager PropertiesChanged of the global-state notification
\* agrees with the store when it is emitted: State is AppState.global_state,
\* Connectivity is global_state_to_connectivity(State), ActiveConnections are
\* the active-connection paths of the devices with nm_state at least
\* Activated, and PrimaryConnection is what a read of the property returns.
C40_ManagerChangedCoherent == [][C40_Step]_vars

\* a notification with State ConnectedGlobal, one active connection and a
\* primary connection has been sent
C40_Witness ==
    /\ ManagerChanged(ops) = { << NM_STATE_CONNECTED_GLOBAL, connectivity >> }
    /\ global_state = NM_STATE_CONNECTED_GLOBAL
    /\ changed_active_connections(devices) # {}
    /\ changed_primary_connection(devices) # {root_path}
====
